---- MODULE Spec2Model ----
(***************************************************************************)
(* Cryologger GVMS: the acquisition-to-storage pipeline of storeData()     *)
(* (Software/cryologger_gvms_ola/storeData.ino) with the globals of the    *)
(* OLA sketch.  Bytes are naturals 0..255.  C arrays are 0-based, TLA+     *)
(* sequences are 1-based: the C element buf[i] is At(buf, i).              *)
(***************************************************************************)
EXTENDS Integers, Sequences, FiniteSets, TLC

VARIABLES
  dim,                    \* sizes of the buffers and of the stream (RealDim / ScaledDim)
  flags,                  \* settings.logData, online.*, qwiicOnline/Available.uBlox
  rx,                     \* bytes waiting in the receiver's I2C output register
  sent,                   \* history: the units the receiver has produced, in order
  parseUbxState,          \* cursor of processUbx
  ubx,                    \* in-progress frame state of processUbx
  UBXbuffer, UBXpointer,  \* storage for a single UBX frame
  GNSSbuffer,             \* RingBufferN contents, oldest first
  SDbuffer, SDpointer,    \* the SD packet being assembled
  maxGNSSbufferAvailable, \* high-water mark of GNSSbuffer
  millis,                 \* the millisecond clock
  lastReadTime,           \* micros() of the last receiver poll
  lastDataLogSyncTime,    \* millis() of the last file sync
  rtcSyncRequiredFlag, rtcSyncFlag,
  rtcSets,                \* the rtc.setTime calls issued, in order
  file,                   \* the log file: the writes issued, in order
  synced,                 \* number of writes that were followed by a file.sync
  ops,                    \* storage calls of the latest storeData invocation
  ret_val,                \* return value of the latest storeData invocation
  frozen,                 \* storeData sits in the while(1) of the overflow freeze
  staged,                 \* history: every byte store_char accepted, in order
  offered                 \* history: every byte passed to store_char, in order

\* the controller: the main loop, the interrupt handlers, the RTC and the
\* watchdog timer
VARIABLES
  pc,                     \* where the main loop stands
  alarmFlag,              \* set by am_rtc_isr
  loggingFlag,            \* micromod: toggled on every alarm the loop handles
  watchdogFlag,           \* set by am_watchdog_isr
  watchdogCounter,        \* micromod: watchdog interrupts since the last petDog
  wdt,                    \* the watchdog timer: running, interrupt raised
  rtc,                    \* the RTC: alarm target, mode, interrupt status and enable
  restarts,               \* history: hard restarts of the system
  calls,                  \* history: the steps of the loop's latest pass, in order
  useGPIO32ForStopLogging, \* settings.useGPIO32ForStopLogging
  stopLoggingFlag         \* set by stopLoggingIsr

ctl == <<pc, alarmFlag, loggingFlag, watchdogFlag, watchdogCounter, wdt, rtc,
         restarts, calls>>

\* the stop button of the OLA
gpio32 == <<useGPIO32ForStopLogging, stopLoggingFlag>>

vars == <<dim, flags, rx, sent, parseUbxState, ubx, UBXbuffer, UBXpointer,
          GNSSbuffer, SDbuffer, SDpointer, maxGNSSbufferAvailable, millis,
          lastReadTime, lastDataLogSyncTime, rtcSyncRequiredFlag, rtcSyncFlag,
          rtcSets, file, synced, ops, ret_val, frozen, staged, offered, ctl, gpio32>>

-----------------------------------------------------------------------------
(* Program constants *)

SDpacket == 512
UBXbufferSize == 4096
GNSSbufferSize == 24576
I2C_BUFFER_LENGTH == 32
SyncInterval == 500
UBX_SYNC_1 == 181
UBX_SYNC_2 == 98
UBX_CLASS_ACK == 5
UBX_CLASS_NAV == 1
UBX_CLASS_RXM == 2
UBX_NAV_PVT == 7
UBX_NAV_TIMEUTC == 33
UBX_RXM_RAWX == 21
UBX_ACK_ACK == 1
UBX_ACK_NACK == 0

(* Bounds of the model: buffer sizes scaled down so that full blocks, a full  *)
(* staging buffer and a full frame buffer are reached by short streams.       *)
ScaledSDpacket == 8
ScaledUBXbufferSize == 30
ScaledGNSSbufferSize == 32
ScaledI2C == 12
MaxUnits == 2            \* units the receiver produces in one behaviour
MaxRx == 40              \* bytes the receiver holds before it stops producing
TickMs == 600            \* clock step
MaxMillis == 600        \* clock value at which the time origin is shifted
usBetweenReadings == 600000  \* settings.usBetweenReadings

RealDim == [SDpacket |-> SDpacket, UBXbufferSize |-> UBXbufferSize,
            GNSSbufferSize |-> GNSSbufferSize, I2C |-> I2C_BUFFER_LENGTH,
            units |-> MaxUnits]
ScaledDim == [SDpacket |-> ScaledSDpacket, UBXbufferSize |-> ScaledUBXbufferSize,
              GNSSbufferSize |-> ScaledGNSSbufferSize, I2C |-> ScaledI2C,
              units |-> MaxUnits]
\* the scaled sizes with one more unit from the receiver, enough for a frame
\* to arrive after GNSSbuffer has overflowed and been drained
BurstDim == [ScaledDim EXCEPT !.units = MaxUnits + 1]

-----------------------------------------------------------------------------
(* Helpers *)

\* A zero-initialised global array that the program fills from index 0
\* upwards is kept as the sequence of its elements up to the highest index
\* written so far; the elements beyond it still hold 0.
At(buf, i) == IF i < Len(buf) THEN buf[i + 1] ELSE 0
Put(buf, i, c) == IF i < Len(buf) THEN [buf EXCEPT ![i + 1] = c]
                  ELSE buf \o [k \in 1..(i - Len(buf)) |-> 0] \o <<c>>
Min(a, b) == IF a < b THEN a ELSE b
Max(a, b) == IF a > b THEN a ELSE b
Take(s, n) == SubSeq(s, 1, Min(n, Len(s)))
Drop(s, n) == SubSeq(s, Min(n, Len(s)) + 1, Len(s))

\* Loops over long buffers are unfolded by halving the index range, which
\* visits the elements in the loop's order with a shallow recursion.  Each
\* unfolding reads its running state in its first test, so that the state is
\* computed before the next element is visited.
RECURSIVE Concat(_)
Concat(ss) == IF ss = <<>> THEN <<>> ELSE Head(ss) \o Concat(Tail(ss))

-----------------------------------------------------------------------------
(* The UBX wire format, as the receiver produces it *)

\* 8-bit Fletcher checksum over class, id, length and payload
RECURSIVE Fletcher(_, _, _, _)
Fletcher(s, lo, hi, ck) ==
  IF lo > hi \/ Len(ck) # 2 THEN ck
  ELSE IF lo = hi
  THEN LET a == (ck[1] + s[lo]) % 256 IN <<a, (ck[2] + a) % 256>>
  ELSE LET mid == (lo + hi) \div 2
       IN Fletcher(s, mid + 1, hi, Fletcher(s, lo, mid, ck))

UbxFrame(cls, id, payload) ==
  LET body == <<cls, id, Len(payload) % 256, Len(payload) \div 256>> \o payload
  IN <<UBX_SYNC_1, UBX_SYNC_2>> \o body \o Fletcher(body, 1, Len(body), <<0, 0>>)

-----------------------------------------------------------------------------
(* processUbx: the byte-at-a-time frame parser *)

ParserReset == [length |-> 0, ckA |-> 0, ckB |-> 0]

CkAdd(u, c) ==
  LET a == (u.ckA + c) % 256 IN [u EXCEPT !.ckA = a, !.ckB = (u.ckB + a) % 256]

\* returns [state, ubx] after consuming byte c in cursor state st
processUbx(st, u, c) ==
  CASE st = "PARSE_UBX_SYNC_CHAR_1" ->
         IF c = UBX_SYNC_1
         THEN [state |-> "PARSE_UBX_SYNC_CHAR_2", ubx |-> ParserReset]
         ELSE [state |-> "SYNC_LOST", ubx |-> u]
    [] st = "PARSE_UBX_SYNC_CHAR_2" ->
         IF c = UBX_SYNC_2
         THEN [state |-> "PARSE_UBX_CLASS", ubx |-> u]
         ELSE [state |-> "SYNC_LOST", ubx |-> u]
    [] st = "PARSE_UBX_CLASS" ->
         [state |-> "PARSE_UBX_ID", ubx |-> CkAdd(u, c)]
    [] st = "PARSE_UBX_ID" ->
         [state |-> "PARSE_UBX_LENGTH_LSB", ubx |-> CkAdd(u, c)]
    [] st = "PARSE_UBX_LENGTH_LSB" ->
         [state |-> "PARSE_UBX_LENGTH_MSB",
          ubx |-> [CkAdd(u, c) EXCEPT !.length = c]]
    [] st = "PARSE_UBX_LENGTH_MSB" ->
         LET n == u.length + 256 * c
         IN [state |-> IF n = 0 THEN "PARSE_UBX_CHECKSUM_A" ELSE "PARSE_UBX_PAYLOAD",
             ubx |-> [CkAdd(u, c) EXCEPT !.length = n]]
    [] st = "PARSE_UBX_PAYLOAD" ->
         [state |-> IF u.length = 1 THEN "PARSE_UBX_CHECKSUM_A" ELSE "PARSE_UBX_PAYLOAD",
          ubx |-> [CkAdd(u, c) EXCEPT !.length = u.length - 1]]
    [] st = "PARSE_UBX_CHECKSUM_A" ->
         IF c = u.ckA
         THEN [state |-> "PARSE_UBX_CHECKSUM_B", ubx |-> u]
         ELSE [state |-> "SYNC_LOST", ubx |-> u]
    [] st = "PARSE_UBX_CHECKSUM_B" ->
         IF c = u.ckB
         THEN [state |-> "FRAME_VALID", ubx |-> u]
         ELSE [state |-> "SYNC_LOST", ubx |-> u]
    [] OTHER -> [state |-> "SYNC_LOST", ubx |-> u]

-----------------------------------------------------------------------------
(* GNSSbuffer: RingBufferN<24576>, a bounded FIFO that refuses a byte when full *)

available(g) == Len(g)
store_char_NoLimit(g, c, cap) == Append(g, c)

store_char(g, c, cap) == IF Len(g) < cap THEN Append(g, c) ELSE g
read_char(g) == [c |-> Head(g), g |-> Tail(g)]

-----------------------------------------------------------------------------
(* storeData, read stage: one incoming byte (storeData.ino 158-351) *)

Bit2(b) == (b \div 4) % 2 = 1

\* lines 290-296: a UBX-NAV-TIMEUTC frame, a sync is needed and the validUTC
\* bit is set
SyncQualifies_NoValidBit(s) ==
  /\ At(s.UBXbuffer, 2) = UBX_CLASS_NAV
  /\ At(s.UBXbuffer, 3) = UBX_NAV_TIMEUTC
  /\ s.rtcSyncRequiredFlag

SyncQualifies_AnyClass(s) ==
  /\ At(s.UBXbuffer, 3) = UBX_NAV_TIMEUTC
  /\ s.rtcSyncRequiredFlag
  /\ Bit2(At(s.UBXbuffer, 25))

SyncQualifies(s) ==
  /\ At(s.UBXbuffer, 2) = UBX_CLASS_NAV
  /\ At(s.UBXbuffer, 3) = UBX_NAV_TIMEUTC
  /\ s.rtcSyncRequiredFlag
  /\ Bit2(At(s.UBXbuffer, 25))

\* the low 31 bits of the 32-bit word assembled from UBXbuffer[14..17], line 304
NanosLow31(b) ==
  At(b, 14) + 256 * At(b, 15) + 65536 * At(b, 16) + 16777216 * (At(b, 17) % 128)

\* centis without lines 308-309: the word is divided as an unsigned number,
\* 2^31 + low = 214 * 10^7 + 7483648 + low, and cast to uint8_t
centis_NoClamp(b) ==
  IF At(b, 17) >= 128
  THEN (214 + NanosLow31(b) \div 10000000
            + ((NanosLow31(b) % 10000000) + 7483648) \div 10000000) % 256
  ELSE (NanosLow31(b) \div 10000000) % 256

\* lines 298-310: the int32 assembled from bytes 14..17 is negative exactly
\* when bit 7 of byte 17 is set, and is then replaced by 0
centis(b) ==
  LET negative == At(b, 17) >= 128
      nanos == IF negative THEN 0 ELSE NanosLow31(b)
  IN (nanos \div 10000000) % 256

\* line 311: the arguments of rtc.setTime
SetTimeArgs(b) ==
  LET rtcYear == At(b, 18) + 256 * At(b, 19)
  IN [hour |-> At(b, 22), minute |-> At(b, 23), seconds |-> At(b, 24),
      hundredths |-> centis(b), day |-> At(b, 21), month |-> At(b, 20),
      year |-> (rtcYear - 2000) % 256]

\* TimeSync without line 313: the sync stays required after the RTC is set
TimeSync_KeepFlag(s) ==
  IF SyncQualifies(s)
  THEN [s EXCEPT !.rtcSets = Append(@, SetTimeArgs(s.UBXbuffer)),
                 !.rtcSyncFlag = TRUE]
  ELSE s

\* lines 289-323: set the RTC from a UBX-NAV-TIMEUTC frame when a sync is pending
TimeSync(s) ==
  IF SyncQualifies(s)
  THEN [s EXCEPT !.rtcSets = Append(@, SetTimeArgs(s.UBXbuffer)),
                 !.rtcSyncFlag = TRUE,
                 !.rtcSyncRequiredFlag = FALSE]
  ELSE s

\* line 329: GNSSbuffer.store_char(UBXbuffer[i])
CopyChar(s, i, cap) ==
  LET c == At(s.UBXbuffer, i)
      g == store_char(s.GNSSbuffer, c, cap)
      took == Len(g) > Len(s.GNSSbuffer)
  IN [s EXCEPT !.GNSSbuffer = g,
               !.staged = IF took THEN Append(@, c) ELSE @,
               !.offered = Append(@, c)]

\* CopyFrame with the loop bound of line 326 one short: the last byte of the
\* frame is left out
CopyFrame_OneShort(s, lo, hi, cap) ==
  LET bytes == [i \in 1..(hi - lo - 1) |-> At(s.UBXbuffer, lo + i - 1)]
      taken == Take(bytes, cap - Len(s.GNSSbuffer))
  IN [s EXCEPT !.GNSSbuffer = @ \o taken, !.staged = @ \o taken,
               !.offered = @ \o bytes]

\* lines 326-330: for (i = lo; i < hi; i++) copy UBXbuffer[i] into GNSSbuffer
RECURSIVE CopyFrame(_, _, _, _)
CopyFrame(s, lo, hi, cap) ==
  IF lo >= hi \/ hi > s.UBXpointer THEN s
  ELSE IF lo + 1 = hi THEN CopyChar(s, lo, cap)
  ELSE LET mid == (lo + hi) \div 2
       IN CopyFrame(CopyFrame(s, lo, mid, cap), mid, hi, cap)

\* FrameValid without the class test of line 179: every frame is staged
FrameValid_NoAckTest(s, d) ==
  LET t == CopyFrame(TimeSync(s), 0, s.UBXpointer, d.GNSSbufferSize)
  IN [t EXCEPT !.UBXpointer = 0, !.parseUbxState = "PARSE_UBX_SYNC_CHAR_1"]

\* lines 177-351: a complete checksum-valid frame sits in UBXbuffer
FrameValid(s, d) ==
  LET t == IF At(s.UBXbuffer, 2) # UBX_CLASS_ACK
           THEN CopyFrame(TimeSync(s), 0, s.UBXpointer, d.GNSSbufferSize)
           ELSE s
  IN [t EXCEPT !.UBXpointer = 0, !.parseUbxState = "PARSE_UBX_SYNC_CHAR_1"]

\* ProcessByte without line 174: a lost sync restarts the parser but keeps
\* the bytes of the malformed frame in UBXbuffer
ProcessByte_KeepLostBytes(s, incoming, d) ==
  LET p == processUbx(s.parseUbxState, s.ubx, incoming)
      t == [s EXCEPT !.parseUbxState = p.state, !.ubx = p.ubx,
                     !.UBXbuffer = Put(@, s.UBXpointer, incoming),
                     !.UBXpointer = @ + 1]
  IN IF t.UBXpointer = d.UBXbufferSize
     THEN [t EXCEPT !.frozen = TRUE]
     ELSE IF t.parseUbxState = "SYNC_LOST"
     THEN [t EXCEPT !.parseUbxState = "PARSE_UBX_SYNC_CHAR_1"]
     ELSE IF t.parseUbxState = "FRAME_VALID"
     THEN FrameValid(t, d)
     ELSE t

\* lines 158-351: the body of the for loop
ProcessByte(s, incoming, d) ==
  LET p == processUbx(s.parseUbxState, s.ubx, incoming)
      t == [s EXCEPT !.parseUbxState = p.state, !.ubx = p.ubx,
                     !.UBXbuffer = Put(@, s.UBXpointer, incoming),
                     !.UBXpointer = @ + 1]
  IN IF t.UBXpointer = d.UBXbufferSize
     THEN [t EXCEPT !.frozen = TRUE]
     ELSE IF t.parseUbxState = "SYNC_LOST"
     THEN [t EXCEPT !.UBXpointer = 0, !.parseUbxState = "PARSE_UBX_SYNC_CHAR_1"]
     ELSE IF t.parseUbxState = "FRAME_VALID"
     THEN FrameValid(t, d)
     ELSE t

\* the loops of lines 136-361 over the bytes bytes[lo..hi] that were read;
\* nothing more is processed once the overflow freeze is entered
RECURSIVE ProcessBytes(_, _, _, _, _)
ProcessBytes(s, bytes, lo, hi, d) ==
  IF lo > hi \/ s.frozen THEN s
  ELSE IF lo = hi THEN ProcessByte(s, bytes[lo], d)
  ELSE LET mid == (lo + hi) \div 2
       IN ProcessBytes(ProcessBytes(s, bytes, lo, mid, d), bytes, mid + 1, hi, d)

-----------------------------------------------------------------------------
(* storeData, write stage (storeData.ino 366-435) *)

\* line 370 without the test of online.microSd
Logging_NoSdTest == flags.logData /\ flags.dataLogging

Logging == flags.logData /\ flags.microSd /\ flags.dataLogging

\* DrainStep without line 400: the loop goes on after a packet is written
DrainStep_KeepGoing(w, pkt) ==
  LET r == read_char(w.GNSSbuffer)
      b == Put(w.SDbuffer, w.SDpointer, r.c)
      p == w.SDpointer + 1
      full == (p = pkt)
      left == w.bufAvail - 1
  IN [GNSSbuffer |-> r.g,
      SDbuffer |-> b,
      SDpointer |-> IF full THEN 0 ELSE p,
      writes |-> IF full THEN Append(w.writes, Take(b, pkt)) ELSE w.writes,
      bufAvail |-> left,
      keep_going |-> left # 0]

\* DrainStep that leaves the byte it has read at the head of GNSSbuffer
DrainStep_NoAdvance(w, pkt) ==
  LET r == read_char(w.GNSSbuffer)
      b == Put(w.SDbuffer, w.SDpointer, r.c)
      p == w.SDpointer + 1
      full == (p = pkt)
      left == w.bufAvail - 1
  IN [GNSSbuffer |-> IF left = 0 THEN w.GNSSbuffer ELSE r.g,
      SDbuffer |-> b,
      SDpointer |-> IF full THEN 0 ELSE p,
      writes |-> IF full THEN Append(w.writes, Take(b, pkt)) ELSE w.writes,
      bufAvail |-> left,
      keep_going |-> ~full /\ left # 0]

\* DrainStep without line 395: SDpointer is not reset when a packet is full
DrainStep_NoReset(w, pkt) ==
  LET r == read_char(w.GNSSbuffer)
      b == Put(w.SDbuffer, w.SDpointer, r.c)
      p == w.SDpointer + 1
      full == (p = pkt)
      left == w.bufAvail - 1
  IN [GNSSbuffer |-> r.g,
      SDbuffer |-> b,
      SDpointer |-> p,
      writes |-> IF full THEN Append(w.writes, Take(b, pkt)) ELSE w.writes,
      bufAvail |-> left,
      keep_going |-> ~full /\ left # 0]

\* lines 390-406: one pass of the while loop
DrainStep(w, pkt) ==
  LET r == read_char(w.GNSSbuffer)
      b == Put(w.SDbuffer, w.SDpointer, r.c)
      p == w.SDpointer + 1
      full == (p = pkt)
      left == w.bufAvail - 1
  IN [GNSSbuffer |-> r.g,
      SDbuffer |-> b,
      SDpointer |-> IF full THEN 0 ELSE p,
      writes |-> IF full THEN Append(w.writes, Take(b, pkt)) ELSE w.writes,
      bufAvail |-> left,
      keep_going |-> ~full /\ left # 0]

\* lines 388-407: while (keep_going), at most n passes (bufAvail bounds them)
RECURSIVE DrainLoop(_, _, _)
DrainLoop(w, n, pkt) ==
  IF n = 0 \/ ~w.keep_going THEN w
  ELSE IF n = 1 THEN DrainStep(w, pkt)
  ELSE DrainLoop(DrainLoop(w, n \div 2, pkt), n - n \div 2, pkt)

\* the interval of the comment on line 409 ("every 1000 ms") in place of the
\* 500 of line 410
SyncDue_1000 == millis - lastDataLogSyncTime > 2 * SyncInterval

\* line 410: millis() - lastDataLogSyncTime > 500
SyncDue == millis - lastDataLogSyncTime > SyncInterval

\* the 'extra' bytes written whenever there are any, timer or not
PartialDue_NoTimer(p) == p > 0

\* the 'extra' bytes never written
PartialDue_Never(p) == FALSE

\* lines 410, 414: the sync is due and p 'extra' bytes sit in SDbuffer
PartialDue(p) == SyncDue /\ p > 0

\* the mark overwritten by every write stage, whether the count is a new
\* maximum or not
HighWater_Latest(bufAvail) == bufAvail

\* lines 374-382: bufAvail is recorded when it is a new maximum
HighWater(bufAvail) == Max(maxGNSSbufferAvailable, bufAvail)

\* lines 366-435 applied to the staging buffer g left by the read stage
SdWrite(g) ==
  IF Logging
  THEN LET bufAvail == available(g)
           w == DrainLoop([GNSSbuffer |-> g, SDbuffer |-> SDbuffer,
                           SDpointer |-> SDpointer, writes |-> <<>>,
                           bufAvail |-> bufAvail, keep_going |-> bufAvail # 0],
                          bufAvail, dim.SDpacket)
           extra == PartialDue(w.SDpointer)
           writes == IF extra THEN Append(w.writes, Take(w.SDbuffer, w.SDpointer))
                     ELSE w.writes
       IN /\ maxGNSSbufferAvailable' = HighWater(bufAvail)
          /\ GNSSbuffer' = w.GNSSbuffer
          /\ SDbuffer' = w.SDbuffer
          /\ SDpointer' = IF extra THEN 0 ELSE w.SDpointer
          /\ file' = file \o writes
          /\ synced' = IF SyncDue THEN Len(file') ELSE synced
          /\ lastDataLogSyncTime' = IF SyncDue THEN millis ELSE lastDataLogSyncTime
          /\ ops' = [i \in 1..Len(writes) |-> [op |-> "write", n |-> Len(writes[i])]]
                    \o (IF SyncDue THEN <<[op |-> "sync", n |-> 0]>> ELSE <<>>)
  ELSE /\ GNSSbuffer' = <<>>
       /\ ops' = <<>>
       /\ UNCHANGED <<maxGNSSbufferAvailable, SDbuffer, SDpointer, file, synced,
                      lastDataLogSyncTime>>

-----------------------------------------------------------------------------
(* storeData *)

micros == millis * 1000

\* line 81
PollDue == micros - lastReadTime > usBetweenReadings \div 3

\* what the receiver can answer to the bytes-available request (lines 85-111):
\* no acknowledge, no data, or a 16-bit count that is the number of waiting
\* bytes, possibly with bit 15 wrongly set or with a low byte of 0xFF
PollAnswers ==
  {[kind |-> "nack", count |-> 0], [kind |-> "none", count |-> 0],
   [kind |-> "count", count |-> Len(rx)],
   [kind |-> "count", count |-> Len(rx) + 32768],
   [kind |-> "count", count |-> (Len(rx) \div 256) * 256 + 255]}

\* ReadState with the parser restarted by every invocation: the in-progress
\* frame is not carried over
ReadState_Restart ==
  [parseUbxState |-> "PARSE_UBX_SYNC_CHAR_1", ubx |-> ubx, UBXbuffer |-> UBXbuffer,
   UBXpointer |-> 0, GNSSbuffer |-> GNSSbuffer,
   rtcSyncRequiredFlag |-> rtcSyncRequiredFlag, rtcSyncFlag |-> rtcSyncFlag,
   rtcSets |-> rtcSets, frozen |-> FALSE, staged |-> staged, offered |-> offered]

ReadState ==
  [parseUbxState |-> parseUbxState, ubx |-> ubx, UBXbuffer |-> UBXbuffer,
   UBXpointer |-> UBXpointer, GNSSbuffer |-> GNSSbuffer,
   rtcSyncRequiredFlag |-> rtcSyncRequiredFlag, rtcSyncFlag |-> rtcSyncFlag,
   rtcSets |-> rtcSets, frozen |-> FALSE, staged |-> staged, offered |-> offered]

\* setup() lines 158-162 attach stopLoggingIsr to the stop button
StopAttached == useGPIO32ForStopLogging /\ pc # "setup"

\* stopLoggingIsr (part_000 lines 482-485) may preempt the function the loop
\* is executing: the flag is set at some point before the function returns
StopDuring ==
  /\ stopLoggingFlag' \in (IF StopAttached THEN {stopLoggingFlag, TRUE}
                                           ELSE {stopLoggingFlag})
  /\ UNCHANGED useGPIO32ForStopLogging

\* the read stage left state s, having taken n bytes from the receiver
Finish(s, n, ret, polled) ==
  /\ parseUbxState' = s.parseUbxState
  /\ ubx' = s.ubx
  /\ UBXbuffer' = s.UBXbuffer
  /\ UBXpointer' = s.UBXpointer
  /\ rtcSyncRequiredFlag' = s.rtcSyncRequiredFlag
  /\ rtcSyncFlag' = s.rtcSyncFlag
  /\ rtcSets' = s.rtcSets
  /\ staged' = s.staged
  /\ offered' = s.offered
  /\ frozen' = s.frozen
  /\ rx' = Drop(rx, n)
  /\ lastReadTime' = IF polled THEN micros ELSE lastReadTime
  /\ IF s.frozen
     THEN /\ GNSSbuffer' = s.GNSSbuffer
          /\ UNCHANGED <<maxGNSSbufferAvailable, SDbuffer, SDpointer, file, synced,
                         lastDataLogSyncTime, ops, ret_val>>
     ELSE /\ SdWrite(s.GNSSbuffer)
          /\ ret_val' = ret
  /\ UNCHANGED <<dim, flags, sent, millis, ctl>>
  /\ StopDuring

\* the number of I2C requests needed for n bytes (lines 146-149, 360)
NumChunks(n) == (n + dim.I2C - 1) \div dim.I2C

\* the bytes qwiic.read() returns for n bytes requested (lines 153-158): the
\* waiting bytes in order, then the receiver's idle byte 0xFF
Served(n) ==
  IF n <= Len(rx) THEN rx ELSE rx \o [k \in 1..(n - Len(rx)) |-> 255]

\* BytesAvailable without lines 124-127: the count is taken literally
BytesAvailable_NoMask(a) ==
  LET msb == (a.count \div 256) % 256
      lsb == a.count % 256
      reported == IF a.kind = "none" THEN 0 ELSE msb * 256 + lsb
  IN [lsb |-> lsb, reported |-> reported, masked |-> reported]

\* the value of bytesAvailable after lines 96-132 for the answer a: the two
\* bytes received, if any, with bit 15 masked
BytesAvailable(a) ==
  LET msb == (a.count \div 256) % 256
      lsb == a.count % 256
      reported == IF a.kind = "none" THEN 0 ELSE msb * 256 + lsb
  IN [lsb |-> lsb, reported |-> reported, masked |-> reported % 32768]

\* PollAndRead without line 104: a length low byte of 0xFF does not put the
\* next poll off
PollAndRead_NoPutOff(a, good) ==
  IF a.kind = "nack" THEN good = 0 /\ Finish(ReadState, 0, FALSE, FALSE)
  ELSE LET b == BytesAvailable(a)
       IN IF a.kind = "count" /\ b.lsb = 255
          THEN good = 0 /\ Finish(ReadState, 0, FALSE, FALSE)
          ELSE IF b.reported = 0 THEN good = 0 /\ Finish(ReadState, 0, TRUE, TRUE)
          ELSE /\ good <= NumChunks(b.masked)
               /\ LET n == Min(good * dim.I2C, b.masked)
                      s == ProcessBytes(ReadState, Served(n), 1, n, dim)
                  IN Finish(s, n, good = NumChunks(b.masked), FALSE)

\* storeData lines 83-437 when the receiver answers a to the bytes-available
\* request and then serves the first `good` data requests
PollAndRead(a, good) ==
  IF a.kind = "nack" THEN good = 0 /\ Finish(ReadState, 0, FALSE, FALSE)
  ELSE LET b == BytesAvailable(a)
       IN IF a.kind = "count" /\ b.lsb = 255
          THEN good = 0 /\ Finish(ReadState, 0, FALSE, TRUE)
          ELSE IF b.reported = 0 THEN good = 0 /\ Finish(ReadState, 0, TRUE, TRUE)
          ELSE /\ good <= NumChunks(b.masked)
               /\ LET n == Min(good * dim.I2C, b.masked)
                      s == ProcessBytes(ReadState, Served(n), 1, n, dim)
                  IN Finish(s, n, good = NumChunks(b.masked), FALSE)

\* lines 77-81: the receiver is online and the poll interval has passed
Polls == flags.uBloxOnline /\ flags.uBloxAvailable /\ PollDue

\* loop() lines 213-216 and storeData lines 73-437
storeData ==
  /\ pc # "stopped"
  /\ ~frozen
  /\ flags.dataLogging
  /\ IF ~Polls
     THEN Finish(ReadState, 0, TRUE, FALSE)
     ELSE \E a \in PollAnswers, good \in 0..NumChunks(Len(rx)) : PollAndRead(a, good)

-----------------------------------------------------------------------------
(* The environment: the receiver and the clock *)

TimePayload(nano4, valid) ==
  <<0, 0, 0, 0, 0, 0, 0, 0>> \o nano4 \o <<230, 7, 11, 3, 12, 59, 50, valid>>

Units ==
  {[kind |-> "nav", bytes |-> UbxFrame(UBX_CLASS_NAV, UBX_NAV_PVT, <<17>>)],
   [kind |-> "ack", bytes |-> UbxFrame(UBX_CLASS_ACK, UBX_ACK_ACK, <<6, 8>>)],
   [kind |-> "time", bytes |-> UbxFrame(UBX_CLASS_NAV, UBX_NAV_TIMEUTC,
                                        TimePayload(<<254, 255, 255, 255>>, 7))],
   [kind |-> "badck", bytes |-> <<UBX_SYNC_1, UBX_SYNC_2, UBX_CLASS_NAV, UBX_NAV_PVT,
                                  1, 0, 18, 27, 73>>],
   [kind |-> "badlen", bytes |-> <<UBX_SYNC_1, UBX_SYNC_2, UBX_CLASS_NAV, UBX_NAV_PVT,
                                   60, 0>>],
   [kind |-> "big", bytes |-> UbxFrame(UBX_CLASS_NAV, UBX_NAV_PVT,
                                       [i \in 1..(ScaledUBXbufferSize - 8) |-> i])],
   [kind |-> "noise", bytes |-> <<0>>]}

RxEmit ==
  /\ Len(sent) < dim.units
  /\ \E u \in Units :
       /\ Len(rx) + Len(u.bytes) <= MaxRx
       /\ rx' = rx \o u.bytes
       /\ sent' = Append(sent, u)
  /\ UNCHANGED <<dim, flags, parseUbxState, ubx, UBXbuffer, UBXpointer, GNSSbuffer,
                 SDbuffer, SDpointer, maxGNSSbufferAvailable, millis, lastReadTime,
                 lastDataLogSyncTime, rtcSyncRequiredFlag, rtcSyncFlag, rtcSets,
                 file, synced, ops, ret_val, frozen, staged, offered, ctl>>
  /\ UNCHANGED gpio32

\* the clock advances; past MaxMillis the time origin is moved forward, which
\* changes no difference the program computes
Tick ==
  LET t == millis + TickMs
      shift == IF t > MaxMillis THEN t - MaxMillis ELSE 0
  IN /\ millis' = t - shift
     /\ lastDataLogSyncTime' = Max(0, lastDataLogSyncTime - shift)
     /\ lastReadTime' = Max(0, lastReadTime - 1000 * shift)
     /\ UNCHANGED <<dim, flags, rx, sent, parseUbxState, ubx, UBXbuffer, UBXpointer,
                    GNSSbuffer, SDbuffer, SDpointer, maxGNSSbufferAvailable,
                    rtcSyncRequiredFlag, rtcSyncFlag, rtcSets, file, synced, ops,
                    ret_val, frozen, staged, offered, ctl>>
     /\ UNCHANGED gpio32

-----------------------------------------------------------------------------
(* The RTC and the watchdog timer *)

\* The RTC's alarm: the target installed by setAlarm, the alarm mode, the
\* alarm interrupt status (AM_HAL_RTC_INT_ALM) and whether the interrupt is
\* delivered to am_rtc_isr. The status is "latched" once the alarm matches
\* and until it is cleared; it is "stale" when it was latched under a target
\* that has been replaced since.
RtcPowerOn == [alarm |-> "none", mode |-> 0, int |-> "none", attached |-> FALSE]

am_hal_rtc_int_clear(r) == [r EXCEPT !.int = "none"]

setAlarm(r, target) ==
  [r EXCEPT !.alarm = target,
            !.int = IF r.int = "none" THEN "none" ELSE "stale"]

setAlarmMode(r, m) == [r EXCEPT !.mode = m]

attachInterrupt(r) == [r EXCEPT !.attached = TRUE]

\* OLA configureRtc (part_000 lines 326-340)
ola_configureRtc(r) ==
  attachInterrupt(setAlarmMode(setAlarm(r, "rollover"), 5))

\* the watchdog timer: wdt.restart, wdt.stop and wdt.clear
WdtStarted == [running |-> TRUE, interrupt |-> FALSE]

wdt_clear(w) == [w EXCEPT !.interrupt = FALSE]

wdt_restart(w) == [w EXCEPT !.running = TRUE]

wdt_stop(w) == [w EXCEPT !.running = FALSE]

\* an interrupt is raised and will be served before the loop's next step
IrqPending == (rtc.attached /\ rtc.int # "none") \/ wdt.interrupt

-----------------------------------------------------------------------------
(* Initial states: the globals after setup() *)

\* loop() runs storeData only while online.dataLogging is set (line 213), and
\* beginDataLogging sets it only with the SD card, logging and the receiver
\* online and the RTC synced. Afterwards the SD card can go offline (beginSd,
\* lines 290-311) and the receiver can be powered down.
InitFlags ==
  {[logData |-> TRUE, microSd |-> TRUE, dataLogging |-> TRUE,
    uBloxOnline |-> TRUE, uBloxAvailable |-> TRUE],
   [logData |-> TRUE, microSd |-> FALSE, dataLogging |-> TRUE,
    uBloxOnline |-> TRUE, uBloxAvailable |-> TRUE],
   [logData |-> TRUE, microSd |-> TRUE, dataLogging |-> TRUE,
    uBloxOnline |-> TRUE, uBloxAvailable |-> FALSE]}

InitCommon ==
  /\ parseUbxState = "PARSE_UBX_SYNC_CHAR_1"
  /\ ubx = ParserReset
  /\ UBXbuffer = <<>>
  /\ UBXpointer = 0
  /\ GNSSbuffer = <<>>
  /\ SDbuffer = <<>>
  /\ SDpointer = 0
  /\ maxGNSSbufferAvailable = 0
  /\ millis = 0
  /\ lastReadTime = 0
  /\ lastDataLogSyncTime = 0
  /\ rtcSyncRequiredFlag = TRUE
  /\ rtcSyncFlag = TRUE
  /\ rtcSets = <<>>
  /\ file = <<>>
  /\ synced = 0
  /\ ops = <<>>
  /\ ret_val = TRUE
  /\ frozen = FALSE
  /\ staged = <<>>
  /\ offered = <<>>

\* the controller of the OLA once setup() has run (part_000 lines 134-201):
\* the alarm is configured and the loop has not handled any event yet
InitControl ==
  /\ pc = "loop"
  /\ alarmFlag = FALSE
  /\ loggingFlag = FALSE
  /\ watchdogFlag = FALSE
  /\ watchdogCounter = 0
  /\ wdt = WdtStarted
  /\ rtc = ola_configureRtc(RtcPowerOn)
  /\ restarts = 0
  /\ calls = <<>>
  /\ useGPIO32ForStopLogging = FALSE
  /\ stopLoggingFlag = FALSE

Init ==
  /\ dim = ScaledDim
  /\ flags \in InitFlags
  /\ sent = <<>>
  /\ rx = <<>>
  /\ InitCommon
  /\ InitControl

Next == storeData \/ RxEmit \/ Tick

Spec == Init /\ [][Next]_vars

\* logging online; the receiver, which has been running since power-up, holds
\* a backlog of two units when the first storeData runs, and produces one more
InitBurst ==
  /\ dim = BurstDim
  /\ flags = [logData |-> TRUE, microSd |-> TRUE, dataLogging |-> TRUE,
              uBloxOnline |-> TRUE, uBloxAvailable |-> TRUE]
  /\ \E u1 \in Units, u2 \in Units :
       /\ Len(u1.bytes) + Len(u2.bytes) <= MaxRx
       /\ sent = <<u1, u2>>
       /\ rx = u1.bytes \o u2.bytes
  /\ InitCommon
  /\ InitControl

SpecBurst == InitBurst /\ [][Next]_vars

-----------------------------------------------------------------------------
(* The end-to-end scenario at the real buffer sizes: the transport holds one *)
(* non-acknowledgment frame and one acknowledgment frame, in either order    *)

E2ENavLen == 500
E2EAckLen == 100

E2EPayload(n) == [i \in 1..(n - 8) |-> i % 251]
E2ENav == [kind |-> "nav", bytes |-> UbxFrame(UBX_CLASS_NAV, UBX_NAV_PVT,
                                              E2EPayload(E2ENavLen))]
E2EAck == [kind |-> "ack", bytes |-> UbxFrame(UBX_CLASS_ACK, UBX_ACK_ACK,
                                              E2EPayload(E2EAckLen))]

InitE2E ==
  /\ dim = RealDim
  /\ flags = [logData |-> TRUE, microSd |-> TRUE, dataLogging |-> TRUE,
              uBloxOnline |-> TRUE, uBloxAvailable |-> TRUE]
  /\ sent \in {<<E2ENav, E2EAck>>, <<E2EAck, E2ENav>>}
  /\ rx = sent[1].bytes \o sent[2].bytes
  /\ InitCommon
  /\ InitControl

NextE2E == storeData \/ Tick

SpecE2E == InitE2E /\ [][NextE2E]_vars

-----------------------------------------------------------------------------
(* Vocabulary of the properties *)

IsPrefix(a, b) == Len(a) <= Len(b) /\ SubSeq(b, 1, Len(a)) = a
IsSuffix(a, b) == Len(a) <= Len(b) /\ SubSeq(b, Len(b) - Len(a) + 1, Len(b)) = a

\* a is b with some elements left out
RECURSIVE IsSubseq(_, _)
IsSubseq(a, b) ==
  IF a = <<>> THEN TRUE
  ELSE IF Len(a) > Len(b) THEN FALSE
  ELSE IF Head(a) = Head(b) THEN IsSubseq(Tail(a), Tail(b))
  ELSE IsSubseq(a, Tail(b))

\* a is the concatenation of some of the frames of fs, in their order
RECURSIVE IsFramesOf(_, _)
IsFramesOf(a, fs) ==
  IF a = <<>> THEN TRUE
  ELSE IF fs = <<>> THEN FALSE
  ELSE \/ IsPrefix(Head(fs), a) /\ IsFramesOf(Drop(a, Len(Head(fs))), Tail(fs))
       \/ IsFramesOf(a, Tail(fs))

NonAckKinds == {"nav", "time", "big"}
ValidKinds == NonAckKinds \cup {"ack"}

BytesOf(us) == Concat([i \in 1..Len(us) |-> us[i].bytes])

\* number of bytes of the stream that storeData has read so far
Consumed == Len(BytesOf(sent)) - Len(rx)

\* the checksum-valid non-acknowledgment frames the receiver has produced,
\* and those of them whose last byte has been read
NonAckFrames ==
  LET keep(u) == u.kind \in NonAckKinds
      sel == SelectSeq(sent, keep)
  IN [i \in 1..Len(sel) |-> sel[i].bytes]

RECURSIVE ReadNonAckFrames(_)
ReadNonAckFrames(n) ==
  IF n = 0 THEN <<>>
  ELSE IF sent[n].kind \in NonAckKinds /\ Len(BytesOf(SubSeq(sent, 1, n))) <= Consumed
  THEN Append(ReadNonAckFrames(n - 1), sent[n].bytes)
  ELSE ReadNonAckFrames(n - 1)

\* the receiver has produced only checksum-valid frames / only such frames
\* that are shorter than the frame buffer
ValidStream == \A i \in 1..Len(sent) : sent[i].kind \in ValidKinds
FittingStream ==
  \A i \in 1..Len(sent) :
    sent[i].kind \in ValidKinds /\ Len(sent[i].bytes) < dim.UBXbufferSize

Dropped == Len(offered) - Len(staged)
FileBytes == Concat(file)
Assembly == Take(SDbuffer, SDpointer)
HasKind(k) == \E i \in 1..Len(sent) : sent[i].kind = k

-----------------------------------------------------------------------------
(* C1: acknowledgment filtering *)

\* C1 as stated: once a stream of checksum-valid ACK and non-ACK frames has
\* been read, the bytes accepted into GNSSbuffer are exactly the bytes of the
\* non-ACK frames.
C1_AsStated ==
  FittingStream /\ rx = <<>> => staged = Concat(NonAckFrames)

\* C1 amended: for a stream of checksum-valid frames shorter than the frame
\* buffer, the bytes passed to GNSSbuffer are exactly the bytes of the non-ACK
\* frames read so far, the bytes accepted are those bytes less the ones refused
\* while the buffer was full, and no ACK/NACK byte is ever staged.
C1_AckFiltering ==
  FittingStream =>
    /\ IsPrefix(offered, Concat(NonAckFrames))
    /\ rx = <<>> => offered = Concat(NonAckFrames)
    /\ IsSubseq(staged, offered)
    /\ Dropped = 0 => staged = offered

C1_Witness ==
  /\ FittingStream /\ rx = <<>> /\ HasKind("ack") /\ HasKind("nav")
  /\ staged = Concat(NonAckFrames) /\ staged # <<>>

-----------------------------------------------------------------------------
(* C2: only complete checksum-valid frames are staged *)

\* C2: in every reachable state, for every stream, the bytes passed to and
\* held by GNSSbuffer are whole checksum-valid non-ACK frames whose last byte
\* has been read: no byte of the frame in progress in UBXbuffer and no byte of
\* a frame that ended in a sync or checksum mismatch.
C2_OnlyValidFrames ==
  /\ IsFramesOf(offered, ReadNonAckFrames(Len(sent)))
  /\ IsSubseq(staged, offered)
  /\ IsSuffix(GNSSbuffer, staged)

C2_Witness ==
  /\ HasKind("badck") /\ HasKind("nav") /\ rx = <<>>
  /\ staged = Concat(NonAckFrames) /\ staged # <<>>

-----------------------------------------------------------------------------
(* C3: frames are staged byte for byte *)

-----------------------------------------------------------------------------
(* C4: the file is the staged stream *)

-----------------------------------------------------------------------------
(* C5: one write per invocation *)

IsWrite(o) == o.op = "write"
IsSync(o) == o.op = "sync"
WritesIn(os) == Len(SelectSeq(os, IsWrite))
SyncsIn(os) == Len(SelectSeq(os, IsSync))

\* C5: the storage operations issued by one invocation of storeData contain
\* at most one write, also when the invocation issues a sync; no invocation
\* adds more than one block to the file.
C5_OneWritePerInvocation ==
  /\ WritesIn(ops) <= 1
  /\ SyncsIn(ops) <= 1
  /\ Len(ops) <= 2

\* a full block is written by an invocation in which the sync is also due
C5_Witness ==
  ops = <<[op |-> "write", n |-> dim.SDpacket], [op |-> "sync", n |-> 0]>>

-----------------------------------------------------------------------------
(* C6: block sizes *)

\* C6 as stated: every write is exactly SDpacket bytes, except one partial
\* block that is the last write of the file.
C6_AsStated ==
  \A i \in 1..(Len(file) - 1) : Len(file[i]) = dim.SDpacket

\* C6 amended: every write is either exactly SDpacket bytes (issued by the
\* drain loop) or a partial block of 1..SDpacket-1 bytes issued by the periodic
\* sync and followed in the same invocation by the file sync; partial blocks
\* are written whenever the sync is due with bytes in SDbuffer, any number of
\* times, not only as the last write.
C6_BlockSizes ==
  /\ \A i \in 1..Len(file) : Len(file[i]) \in 1..dim.SDpacket
  /\ \A i \in 1..Len(file) : Len(file[i]) < dim.SDpacket => i <= synced
  /\ \A i \in 1..Len(ops) :
       IsWrite(ops[i]) =>
         \/ ops[i].n = dim.SDpacket
         \/ ops[i].n \in 1..(dim.SDpacket - 1) /\ i < Len(ops) /\ IsSync(ops[i + 1])

\* a partial block that is followed by a further write
C6_Witness ==
  \E i \in 1..(Len(file) - 1) :
    Len(file[i]) < dim.SDpacket /\ Len(file[i + 1]) = dim.SDpacket

-----------------------------------------------------------------------------
(* C7: the periodic sync *)

Elapsed == millis - lastDataLogSyncTime

-----------------------------------------------------------------------------
(* C8: staged bytes become durable *)

\* loop() invokes storeData again and again, and the clock keeps advancing
FairSpec ==
  Init /\ [][Next]_vars /\ []<><<storeData>>_vars /\ WF_vars(Tick)

\* the bytes written to the file before its last sync
Durable == Concat(Take(file, synced))

\* C8: with logging enabled, storeData invoked again and again and time
\* advancing, whenever bytes have been staged there comes a state in which
\* every staged byte is in the file and synced and none is left in GNSSbuffer
\* or SDbuffer (or storeData has halted and is no longer invoked).
C8_EventuallyDurable ==
  (Logging /\ staged # <<>>)
    ~> (frozen \/ (Durable = staged /\ GNSSbuffer = <<>> /\ SDpointer = 0))

\* staged bytes that did not fill a block have been written and synced
C8_Witness ==
  /\ Logging /\ staged # <<>> /\ Durable = staged /\ rx = <<>>
  /\ Len(file[Len(file)]) < dim.SDpacket

-----------------------------------------------------------------------------
(* C9: the end-to-end scenario *)

\* C9: with a 500-byte non-ACK frame and a 100-byte ACK frame delivered and a
\* block of 512 bytes, no full block is ever written; nothing is written by an
\* invocation that does not also sync (so nothing before the timer fires);
\* the only write ever issued is one write of the 500 bytes of the non-ACK
\* frame, followed at once by one sync; and once the 600 bytes are read the
\* 500 bytes are either waiting in SDbuffer or are that one write.
C9_EndToEnd ==
  /\ Len(file) <= 1
  /\ \A i \in 1..Len(file) : file[i] = E2ENav.bytes
  /\ \A i \in 1..Len(ops) : IsWrite(ops[i]) => ops[i].n # dim.SDpacket
  /\ ops \in {<<>>, <<[op |-> "sync", n |-> 0]>>,
              <<[op |-> "write", n |-> E2ENavLen], [op |-> "sync", n |-> 0]>>}
  /\ synced = Len(file)
  /\ millis <= SyncInterval => file = <<>>
  /\ rx = <<>> /\ ~frozen =>
       \/ file = <<>> /\ Take(SDbuffer, SDpointer) = E2ENav.bytes
       \/ file = <<E2ENav.bytes>> /\ SDpointer = 0

C9_Witness ==
  /\ file = <<E2ENav.bytes>> /\ rx = <<>> /\ synced = 1 /\ GNSSbuffer = <<>>
  /\ ops = <<[op |-> "write", n |-> E2ENavLen], [op |-> "sync", n |-> 0]>>

-----------------------------------------------------------------------------
(* C10: appending to a nearly full GNSSbuffer *)

\* the result of copying frame f from UBXbuffer in the current state
AppendFrame(f) ==
  CopyFrame([ReadState EXCEPT !.UBXbuffer = f, !.UBXpointer = Len(f)],
            0, Len(f), dim.GNSSbufferSize)

\* C10: GNSSbuffer never holds more than its capacity; and at every reachable
\* fill level, with room for k bytes, appending any frame accepts exactly its
\* first k bytes (all of it when it fits) behind the bytes already held,
\* which are unchanged.
C10_AppendBoundary ==
  /\ Len(GNSSbuffer) <= dim.GNSSbufferSize
  /\ IsSubseq(staged, offered)
  /\ \A u \in Units :
       LET k == dim.GNSSbufferSize - Len(GNSSbuffer)
           t == AppendFrame(u.bytes)
       IN /\ t.GNSSbuffer = GNSSbuffer \o Take(u.bytes, k)
          /\ t.staged = staged \o Take(u.bytes, k)
          /\ t.offered = offered \o u.bytes
          /\ Len(t.GNSSbuffer) <= dim.GNSSbufferSize

\* a frame was offered with less room than its length: its first bytes were
\* accepted up to the capacity and the rest refused
C10_Witness ==
  /\ Dropped > 0
  /\ maxGNSSbufferAvailable = dim.GNSSbufferSize
  /\ staged = Take(offered, Len(staged))

-----------------------------------------------------------------------------
(* C11: accounting of the bytes refused by the staging buffer *)

\* The copy loop of storeData (lines 326-330) calls GNSSbuffer.store_char and
\* discards the outcome: the program keeps no overflow counter, and the only
\* figure it records about GNSSbuffer is the high-water mark of line 374.
\* The number of lost bytes the program has counted is therefore always 0.
overflowCount == 0

\* C11 as stated: every byte lost because GNSSbuffer is full is counted, so
\* the bytes accepted by the staging buffer (staged, which holds the drained
\* ones too) plus the counted-lost bytes equal the bytes of the validated
\* non-acknowledgment frames offered to it.
C11_AsStated ==
  Len(staged) + overflowCount = Len(offered)

-----------------------------------------------------------------------------
(* The micromod controller: cryologger_gvms_micromod.ino and 01_rtc.ino *)

\* configureRtc (01_rtc.ino lines 2-38)
micromod_configureRtc(r) ==
  am_hal_rtc_int_clear(
    attachInterrupt(setAlarmMode(setAlarm(am_hal_rtc_int_clear(r), "rollover"), 5)))

\* the body shared by setSleepAlarm and setLoggingAlarm (01_rtc.ino lines
\* 63-69 and 80-85): clear the alarm interrupt, set the alarm, set mode 5
rollingAlarm(r, target) ==
  setAlarmMode(setAlarm(am_hal_rtc_int_clear(r), target), 5)

\* setSleepAlarm (01_rtc.ino lines 59-74); the controller does not follow
\* the clock, its alarm target is named after the function that set it
setSleepAlarm(r) == rollingAlarm(r, "sleep")

\* setLoggingAlarm (01_rtc.ino lines 76-90)
setLoggingAlarm(r) == rollingAlarm(r, "logging")

\* the steps of loop() inside if (loggingFlag), lines 195-208, up to the call
\* of logGnss, which returns when the logging alarm has fired
LoggingSteps ==
  <<"setLoggingAlarm", "peripheralPowerOn", "configureSd", "createLogFile",
    "qwiicPowerOn", "configureGnss", "logGnss">>

\* the steps of loop() that close the alarm branch, lines 211-217
ClosingSteps_NoAlarm == <<"logDebugData">>

ClosingSteps == <<"logDebugData", "setSleepAlarm">>

\* the RTC after a run of steps
RECURSIVE RtcAfter(_, _)
RtcAfter(r, steps) ==
  IF steps = <<>> THEN r
  ELSE LET r1 == IF Head(steps) = "setLoggingAlarm" THEN setLoggingAlarm(r)
                 ELSE IF Head(steps) = "setSleepAlarm" THEN setSleepAlarm(r)
                 ELSE IF Head(steps) = "configureRtc" THEN ola_configureRtc(r)
                 ELSE r
       IN RtcAfter(r1, Tail(steps))

\* petDog() of lines 221-224: restarts the watchdog timer and resets the
\* flag and the counter of am_watchdog_isr
PetDogIfFlagged ==
  /\ watchdogFlag' = FALSE
  /\ watchdogCounter' = IF watchdogFlag THEN 0 ELSE watchdogCounter
  /\ wdt' = IF watchdogFlag THEN wdt_restart(wdt) ELSE wdt

Pipeline ==
  <<dim, flags, rx, sent, parseUbxState, ubx, UBXbuffer, UBXpointer,
    GNSSbuffer, SDbuffer, SDpointer, maxGNSSbufferAvailable, millis,
    lastReadTime, lastDataLogSyncTime, rtcSyncRequiredFlag, rtcSyncFlag,
    rtcSets, file, synced, ops, ret_val, frozen, staged, offered>>

\* setup(), lines 130-175: configureWdt starts the watchdog timer and
\* configureRtc installs the initial alarm
micromod_setup ==
  /\ pc = "setup"
  /\ wdt' = WdtStarted
  /\ rtc' = micromod_configureRtc(rtc)
  /\ calls' = <<"configureWdt", "configureRtc">>
  /\ pc' = "loop"
  /\ UNCHANGED <<alarmFlag, loggingFlag, watchdogFlag, watchdogCounter, restarts,
                 Pipeline>>
  /\ UNCHANGED gpio32

\* loop() lines 211-230: the end of the alarm branch, the watchdog check and
\* goToSleep
ClosePass(done) ==
  /\ alarmFlag' = FALSE
  /\ rtc' = RtcAfter(rtc, ClosingSteps)
  /\ PetDogIfFlagged
  /\ calls' = done \o ClosingSteps \o <<"goToSleep">>
  /\ pc' = "sleep"

\* loop() lines 183-208 with the alarm flag set: up to the call of logGnss
\* in a logging pass, up to goToSleep otherwise
micromod_loopAlarm ==
  /\ ~IrqPending
  /\ pc = "loop"
  /\ alarmFlag
  /\ loggingFlag' = ~loggingFlag
  /\ IF ~loggingFlag
     THEN /\ alarmFlag' = FALSE
          /\ rtc' = RtcAfter(rtc, LoggingSteps)
          /\ calls' = <<"alarm">> \o LoggingSteps
          /\ pc' = "logGnss"
          /\ UNCHANGED <<watchdogFlag, watchdogCounter, wdt>>
     ELSE ClosePass(<<"alarm">>)
  /\ UNCHANGED <<restarts, Pipeline>>
  /\ UNCHANGED gpio32

\* logGnss keeps the watchdog petted while it logs
micromod_logGnssPet ==
  /\ ~IrqPending
  /\ pc = "logGnss"
  /\ ~alarmFlag
  /\ watchdogFlag
  /\ PetDogIfFlagged
  /\ UNCHANGED <<pc, alarmFlag, loggingFlag, rtc, restarts, calls, Pipeline>>
  /\ UNCHANGED gpio32

\* logGnss returns once the logging alarm has fired; loop() lines 207-230
micromod_logGnssReturn ==
  /\ ~IrqPending
  /\ pc = "logGnss"
  /\ alarmFlag
  /\ ClosePass(calls)
  /\ UNCHANGED <<loggingFlag, restarts, Pipeline>>
  /\ UNCHANGED gpio32

\* loop() with the alarm flag clear: lines 221-230
micromod_loopIdle ==
  /\ ~IrqPending
  /\ pc = "loop"
  /\ ~alarmFlag
  /\ PetDogIfFlagged
  /\ calls' = <<"goToSleep">>
  /\ pc' = "sleep"
  /\ UNCHANGED <<alarmFlag, loggingFlag, rtc, restarts, Pipeline>>
  /\ UNCHANGED gpio32

\* an interrupt handler that returns ends goToSleep
Woken == IF pc = "sleep" THEN "loop" ELSE pc

\* the RTC reaches the alarm target
RtcMatch ==
  /\ rtc.mode # 0
  /\ rtc.int = "none"
  /\ rtc' = [rtc EXCEPT !.int = "latched"]
  /\ UNCHANGED <<pc, alarmFlag, loggingFlag, watchdogFlag, watchdogCounter, wdt,
                 restarts, calls, Pipeline>>
  /\ UNCHANGED gpio32

\* am_rtc_isr without line 242: the alarm interrupt is left set
micromod_am_rtc_isr_NoClear ==
  /\ pc \notin {"setup", "halt"}
  /\ rtc.attached
  /\ rtc.int # "none"
  /\ alarmFlag' = TRUE
  /\ pc' = Woken
  /\ UNCHANGED <<rtc, loggingFlag, watchdogFlag, watchdogCounter, wdt, restarts,
                 calls, Pipeline>>
  /\ UNCHANGED gpio32

\* am_rtc_isr, lines 238-246
micromod_am_rtc_isr ==
  /\ pc \notin {"setup", "halt"}
  /\ rtc.attached
  /\ rtc.int # "none"
  /\ rtc' = am_hal_rtc_int_clear(rtc)
  /\ alarmFlag' = TRUE
  /\ pc' = Woken
  /\ UNCHANGED <<loggingFlag, watchdogFlag, watchdogCounter, wdt, restarts, calls,
                 Pipeline>>
  /\ UNCHANGED gpio32

\* The watchdog timer runs out. The first time it raises the watchdog
\* interrupt; if it runs out again with the interrupt still raised, which
\* takes a processor that no longer serves interrupts, it resets the system.
WdtTimeout ==
  /\ wdt.running
  /\ wdt.interrupt => pc = "halt"
  /\ IF wdt.interrupt
     THEN /\ restarts' = restarts + 1
          /\ pc' = "setup"
          /\ wdt' = [running |-> FALSE, interrupt |-> FALSE]
          /\ alarmFlag' = FALSE
          /\ loggingFlag' = FALSE
          /\ watchdogFlag' = FALSE
          /\ watchdogCounter' = 0
          /\ calls' = <<>>
          /\ UNCHANGED rtc
     ELSE /\ wdt' = [wdt EXCEPT !.interrupt = TRUE]
          /\ UNCHANGED <<pc, alarmFlag, loggingFlag, watchdogFlag, watchdogCounter,
                         rtc, restarts, calls>>
  /\ UNCHANGED Pipeline
  /\ UNCHANGED gpio32

\* am_watchdog_isr, lines 249-269
WatchdogLimit == 10

micromod_am_watchdog_isr ==
  /\ pc \notin {"setup", "halt"}
  /\ wdt.interrupt
  /\ IF watchdogCounter < WatchdogLimit
     THEN /\ wdt' = wdt_restart(wdt_clear(wdt))
          /\ watchdogFlag' = TRUE
          /\ watchdogCounter' = watchdogCounter + 1
          /\ pc' = Woken
     ELSE /\ wdt' = wdt_stop(wdt_clear(wdt))
          /\ pc' = "halt"
          /\ UNCHANGED <<watchdogFlag, watchdogCounter>>
  /\ UNCHANGED <<alarmFlag, loggingFlag, rtc, restarts, calls, Pipeline>>
  /\ UNCHANGED gpio32

\* The state at power-up or reset. The RTC keeps running across a reset, so
\* its alarm interrupt status can be latched from the previous run.
InitMicromod ==
  /\ dim = ScaledDim
  /\ flags = [logData |-> TRUE, microSd |-> TRUE, dataLogging |-> TRUE,
              uBloxOnline |-> TRUE, uBloxAvailable |-> TRUE]
  /\ sent = <<>>
  /\ rx = <<>>
  /\ InitCommon
  /\ pc = "setup"
  /\ alarmFlag = FALSE
  /\ loggingFlag = FALSE
  /\ watchdogFlag = FALSE
  /\ watchdogCounter = 0
  /\ wdt = [running |-> FALSE, interrupt |-> FALSE]
  /\ rtc \in {RtcPowerOn, [RtcPowerOn EXCEPT !.int = "latched"]}
  /\ restarts = 0
  /\ calls = <<>>
  /\ useGPIO32ForStopLogging = FALSE
  /\ stopLoggingFlag = FALSE

NextMicromod ==
  \/ micromod_setup
  \/ micromod_loopAlarm
  \/ micromod_logGnssPet
  \/ micromod_logGnssReturn
  \/ micromod_loopIdle
  \/ RtcMatch
  \/ micromod_am_rtc_isr
  \/ WdtTimeout
  \/ micromod_am_watchdog_isr

SpecMicromod == InitMicromod /\ [][NextMicromod]_vars

-----------------------------------------------------------------------------
(* C12: the watchdog interrupt counter *)

\* C12 as stated: counting from a watchdog interrupt counter of 0 with no
\* petDog in between, each of the first 10 watchdog interrupts re-arms the
\* watchdog and causes no restart, and the 11th triggers exactly one hard
\* restart of the system.
C12_AsStated ==
  [][micromod_am_watchdog_isr =>
       IF watchdogCounter < 10
       THEN /\ wdt'.running /\ ~wdt'.interrupt
            /\ watchdogCounter' = watchdogCounter + 1
            /\ restarts' = restarts
       ELSE restarts' = restarts + 1]_vars

\* The part of C12 the handler does implement: the first 10 interrupts pet
\* the watchdog. The 11th stops the watchdog and never returns.
C12_FirstTenPet ==
  [][micromod_am_watchdog_isr =>
       IF watchdogCounter < 10
       THEN /\ wdt'.running /\ ~wdt'.interrupt
            /\ watchdogCounter' = watchdogCounter + 1
            /\ restarts' = restarts /\ pc' # "halt"
       ELSE ~wdt'.running /\ pc' = "halt" /\ restarts' = restarts]_vars

\* the state the 11th interrupt leaves: watchdog stopped, handler spinning
C12_Halted == pc = "halt" /\ watchdogCounter = 10 /\ ~wdt.running

-----------------------------------------------------------------------------
(* The OLA controller: setup(), loop() and the interrupt handlers of the
   OLA sketch *)

\* beginDataLogging, lines 393-430, for the flags f
beginDataLogging(f) ==
  [f EXCEPT !.dataLogging = f.microSd /\ f.logData /\ f.uBloxOnline /\ rtcSyncFlag]

\* setup(), lines 134-201: beginSd() at line 166, which finds the card or
\* not (lines 259-313), configureRtc() at line 173, beginDataLogging() at
\* line 200
ola_setup ==
  /\ pc = "setup"
  /\ ~flags.dataLogging
  /\ rtc' = ola_configureRtc(rtc)
  /\ \E sdOk \in BOOLEAN :
       flags' = beginDataLogging([flags EXCEPT !.microSd = sdOk])
  /\ calls' = <<"beginSd", "configureRtc", "beginDataLogging">>
  /\ pc' = "loop"
  /\ UNCHANGED <<alarmFlag, loggingFlag, watchdogFlag, watchdogCounter, wdt, restarts>>
  /\ UNCHANGED <<dim, rx, sent, parseUbxState, ubx, UBXbuffer, UBXpointer,
                 GNSSbuffer, SDbuffer, SDpointer, maxGNSSbufferAvailable, millis,
                 lastReadTime, lastDataLogSyncTime, rtcSyncRequiredFlag, rtcSyncFlag,
                 rtcSets, file, synced, ops, ret_val, frozen, staged, offered>>
  /\ stopLoggingFlag' = (IF useGPIO32ForStopLogging THEN FALSE ELSE stopLoggingFlag)
  /\ UNCHANGED useGPIO32ForStopLogging

\* the steps of loop() inside if (alarmFlag), lines 226-227
ola_AlarmSteps == <<"openNewLogFile", "configureRtc">>

\* loop() lines 224-231
ola_loopAlarm ==
  /\ ~IrqPending
  /\ pc = "loop"
  /\ ~frozen
  /\ alarmFlag
  /\ calls' = <<"alarm">> \o ola_AlarmSteps
  /\ rtc' = RtcAfter(rtc, ola_AlarmSteps)
  /\ alarmFlag' = FALSE
  /\ rtcSyncRequiredFlag' = TRUE
  /\ UNCHANGED <<pc, loggingFlag, watchdogFlag, watchdogCounter, wdt, restarts>>
  /\ UNCHANGED <<dim, flags, rx, sent, parseUbxState, ubx, UBXbuffer, UBXpointer,
                 GNSSbuffer, SDbuffer, SDpointer, maxGNSSbufferAvailable, millis,
                 lastReadTime, lastDataLogSyncTime, rtcSyncFlag,
                 rtcSets, file, synced, ops, ret_val, frozen, staged, offered>>
  /\ UNCHANGED gpio32

\* loop() lines 236-244 without line 243
ola_loopSleep_KeepFlag ==
  /\ ~IrqPending
  /\ pc = "loop"
  /\ ~frozen
  /\ calls' = <<"goToSleep">>
  /\ UNCHANGED <<pc, alarmFlag, loggingFlag, watchdogFlag, watchdogCounter, wdt, rtc,
                 restarts, Pipeline, gpio32>>

\* loop() lines 236-244: the sleep between two logging windows
ola_loopSleep ==
  /\ ~IrqPending
  /\ pc = "loop"
  /\ ~frozen
  /\ calls' = <<"goToSleep">>
  /\ rtcSyncRequiredFlag' = TRUE
  /\ UNCHANGED <<pc, alarmFlag, loggingFlag, watchdogFlag, watchdogCounter, wdt, rtc,
                 restarts>>
  /\ UNCHANGED <<dim, flags, rx, sent, parseUbxState, ubx, UBXbuffer, UBXpointer,
                 GNSSbuffer, SDbuffer, SDpointer, maxGNSSbufferAvailable, millis,
                 lastReadTime, lastDataLogSyncTime, rtcSyncFlag,
                 rtcSets, file, synced, ops, ret_val, frozen, staged, offered>>
  /\ UNCHANGED gpio32

\* loop() lines 219-222; stopLogging finalizes the log and halts
ola_loopStop ==
  /\ ~IrqPending
  /\ pc = "loop"
  /\ ~frozen
  /\ useGPIO32ForStopLogging /\ stopLoggingFlag
  /\ calls' = <<"stopLogging">>
  /\ pc' = "stopped"
  /\ UNCHANGED <<alarmFlag, loggingFlag, watchdogFlag, watchdogCounter, wdt, rtc,
                 restarts, Pipeline, gpio32>>

\* stopLoggingIsr taking the loop's place instead of recording the event
stopLoggingIsr_Stops ==
  /\ StopAttached
  /\ pc # "stopped"
  /\ stopLoggingFlag' = TRUE
  /\ calls' = <<"stopLogging">>
  /\ pc' = "stopped"
  /\ UNCHANGED <<alarmFlag, loggingFlag, watchdogFlag, watchdogCounter, wdt, rtc,
                 restarts, Pipeline, useGPIO32ForStopLogging>>

\* stopLoggingIsr, lines 482-485, between two statements of the loop
stopLoggingIsr ==
  /\ StopAttached
  /\ pc # "stopped"
  /\ stopLoggingFlag' = TRUE
  /\ UNCHANGED <<ctl, Pipeline, useGPIO32ForStopLogging>>

\* am_rtc_isr, lines 467-471
ola_am_rtc_isr ==
  /\ pc # "setup"
  /\ rtc.attached
  /\ rtc.int # "none"
  /\ rtc' = am_hal_rtc_int_clear(rtc)
  /\ alarmFlag' = TRUE
  /\ UNCHANGED <<pc, loggingFlag, watchdogFlag, watchdogCounter, wdt, restarts, calls,
                 Pipeline>>
  /\ UNCHANGED gpio32

\* am_watchdog_isr, lines 474-479
ola_am_watchdog_isr ==
  /\ pc # "setup"
  /\ wdt.interrupt
  /\ wdt' = wdt_restart(wdt_clear(wdt))
  /\ watchdogFlag' = TRUE
  /\ UNCHANGED <<pc, alarmFlag, loggingFlag, watchdogCounter, rtc, restarts, calls,
                 Pipeline>>
  /\ UNCHANGED gpio32

\* the scaled sizes with a shorter stream
OlaDim == [ScaledDim EXCEPT !.units = MaxUnits - 1]

\* The state at power-up or reset: data logging is offline until
\* beginDataLogging, and the watchdog timer runs.
InitOla ==
  /\ dim = OlaDim
  /\ flags = [logData |-> TRUE, microSd |-> TRUE, dataLogging |-> FALSE,
              uBloxOnline |-> TRUE, uBloxAvailable |-> TRUE]
  /\ sent = <<>>
  /\ rx = <<>>
  /\ InitCommon
  /\ pc = "setup"
  /\ alarmFlag = FALSE
  /\ loggingFlag = FALSE
  /\ watchdogFlag = FALSE
  /\ watchdogCounter = 0
  /\ wdt = WdtStarted
  /\ rtc \in {RtcPowerOn, [RtcPowerOn EXCEPT !.int = "latched"]}
  /\ restarts = 0
  /\ calls = <<>>
  /\ useGPIO32ForStopLogging = FALSE
  /\ stopLoggingFlag = FALSE

NextOla ==
  \/ ola_setup
  \/ storeData
  \/ RxEmit
  \/ Tick
  \/ ola_loopAlarm
  \/ ola_loopSleep
  \/ RtcMatch
  \/ ola_am_rtc_isr
  \/ WdtTimeout
  \/ ola_am_watchdog_isr

SpecOla == InitOla /\ [][NextOla]_vars

\* the watchdog hardware and its handler keep running whatever the loop does
FairSpecOla ==
  InitOla /\ [][NextOla]_vars /\ WF_vars(WdtTimeout) /\ WF_vars(ola_am_watchdog_isr)

\* the OLA with the stop button enabled in the settings
InitStop ==
  /\ dim = OlaDim
  /\ flags = [logData |-> TRUE, microSd |-> TRUE, dataLogging |-> FALSE,
              uBloxOnline |-> TRUE, uBloxAvailable |-> TRUE]
  /\ sent = <<>>
  /\ rx = <<>>
  /\ InitCommon
  /\ pc = "setup"
  /\ alarmFlag = FALSE
  /\ loggingFlag = FALSE
  /\ watchdogFlag = FALSE
  /\ watchdogCounter = 0
  /\ wdt = WdtStarted
  /\ rtc = RtcPowerOn
  /\ restarts = 0
  /\ calls = <<>>
  /\ useGPIO32ForStopLogging = TRUE
  /\ stopLoggingFlag = FALSE

NextStop ==
  \/ ola_setup
  \/ storeData
  \/ RxEmit
  \/ Tick
  \/ ola_loopAlarm
  \/ ola_loopSleep
  \/ ola_loopStop
  \/ stopLoggingIsr
  \/ RtcMatch
  \/ ola_am_rtc_isr
  \/ WdtTimeout
  \/ ola_am_watchdog_isr

SpecStop == InitStop /\ [][NextStop]_vars

-----------------------------------------------------------------------------
(* C13: recovery from a stalled loop *)

\* the main loop has stopped completing iterations: storeData spins in the
\* while (1) of the frame-buffer-overflow branch
Stalled == frozen

\* C13 as stated: whenever the main loop stalls, the system is eventually
\* restarted through the watchdog.
C13_AsStated == Stalled ~> (restarts > 0)

-----------------------------------------------------------------------------
(* C14: alarm re-arming clears the pending alarm interrupt first *)

\* C14 as stated: every operation that programs an RTC alarm target clears
\* any pending alarm interrupt before it installs the new target, so no alarm
\* interrupt latched under the previous target is pending, or delivered to
\* am_rtc_isr, under the new one.
C14_AsStated == rtc.int # "stale"

-----------------------------------------------------------------------------
(* C15: the next alarm is armed first on the transition into Active *)

ArmingSteps == {"setLoggingAlarm", "configureRtc"}
SessionSteps ==
  {"configureSd", "createLogFile", "openNewLogFile", "configureGnss", "logGnss"}

\* the pass of the loop recorded in c handled an alarm and started logging
StartsActive(c) ==
  /\ c # <<>>
  /\ Head(c) = "alarm"
  /\ \E i \in 1..Len(c) : c[i] \in SessionSteps

\* in c, an alarm is armed before the first step that opens storage or
\* configures the receiver
ArmsFirst(c) ==
  \E i \in 1..Len(c) :
    /\ c[i] \in ArmingSteps
    /\ \A j \in 1..Len(c) : c[j] \in SessionSteps => i < j

\* C15 as stated: on the transition into an Active window the controller
\* arms the next alarm before it opens the new storage session or configures
\* the receiver.
C15_AsStated == StartsActive(calls) => ArmsFirst(calls)

-----------------------------------------------------------------------------
(* C16: every alarm handled while Dormant starts an Active window *)

\* C16 as stated: every RTC alarm that the main loop handles while the system
\* is Dormant (the loop is at its top, not inside logGnss) starts an Active
\* window: the logging alarm is armed, storage is configured, a log file is
\* created and logGnss runs.
C16_AsStated ==
  [][micromod_loopAlarm =>
       /\ pc' = "logGnss"
       /\ rtc'.alarm = "logging"
       /\ StartsActive(calls')]_vars

\* What loop() does: the alarm starts an Active window exactly when
\* loggingFlag was clear, and loggingFlag stays set after a logging pass.
C16_EveryOtherAlarm ==
  [][micromod_loopAlarm =>
       IF loggingFlag
       THEN pc' = "sleep" /\ ~StartsActive(calls') /\ ~loggingFlag'
       ELSE pc' = "logGnss" /\ StartsActive(calls') /\ loggingFlag']_vars

-----------------------------------------------------------------------------
(* C17: the next alarm is armed before the low-power wait *)

\* the position of the last occurrence of step x in c, 0 if there is none
RECURSIVE LastIndex(_, _)
LastIndex(c, x) ==
  IF c = <<>> THEN 0
  ELSE IF c[Len(c)] = x THEN Len(c)
  ELSE LastIndex(SubSeq(c, 1, Len(c) - 1), x)

HandledAlarm(c) == c # <<>> /\ Head(c) = "alarm"

\* C17: whenever the main loop is in goToSleep after a pass that handled an
\* alarm, logging or not, setSleepAlarm was called in that pass after the
\* alarm was taken and after logGnss returned, and before goToSleep, and the
\* RTC holds the target it installed with the hourly alarm mode and the
\* interrupt attached.
C17_RearmBeforeSleep ==
  pc = "sleep" /\ HandledAlarm(calls) =>
    /\ LastIndex(calls, "setSleepAlarm") > LastIndex(calls, "alarm")
    /\ LastIndex(calls, "setSleepAlarm") > LastIndex(calls, "logGnss")
    /\ LastIndex(calls, "setSleepAlarm") < LastIndex(calls, "goToSleep")
    /\ rtc.alarm = "sleep"
    /\ rtc.mode = 5
    /\ rtc.attached
    /\ rtc.int # "stale"

\* the loop sleeps after a logging pass, with the sleep alarm armed
C17_Witness ==
  /\ pc = "sleep"
  /\ StartsActive(calls)
  /\ rtc.alarm = "sleep"
  /\ ~alarmFlag

-----------------------------------------------------------------------------
(* RTC synchronisation: the receiver sends UBX-NAV-TIMEUTC frames *)

\* the nano field of UBX-NAV-TIMEUTC, little-endian: -2, 0, 123456789,
\* 994999999, 2147483647, -5000000 and -2147483648
NanoFields ==
  {<<254, 255, 255, 255>>, <<0, 0, 0, 0>>, <<21, 205, 91, 7>>,
   <<191, 126, 78, 59>>, <<255, 255, 255, 127>>, <<192, 180, 179, 255>>,
   <<0, 0, 0, 128>>}

\* frames with the validUTC bit set, one with the bit clear, one with a
\* wrong checksum, one of another message of class NAV and one with the
\* TIMEUTC id in another class
TimeUnits ==
  {[kind |-> "time", bytes |-> UbxFrame(UBX_CLASS_NAV, UBX_NAV_TIMEUTC,
                                        TimePayload(n, 7))] : n \in NanoFields}
  \cup
  {[kind |-> "timeinv", bytes |-> UbxFrame(UBX_CLASS_NAV, UBX_NAV_TIMEUTC,
                                           TimePayload(<<21, 205, 91, 7>>, 3))],
   [kind |-> "timebadck",
    bytes |-> Put(UbxFrame(UBX_CLASS_NAV, UBX_NAV_TIMEUTC,
                           TimePayload(<<21, 205, 91, 7>>, 7)), 27, 0)],
   [kind |-> "nav", bytes |-> UbxFrame(UBX_CLASS_NAV, UBX_NAV_PVT, <<17>>)],
   [kind |-> "rxm", bytes |-> UbxFrame(UBX_CLASS_RXM, UBX_NAV_TIMEUTC,
                                       TimePayload(<<21, 205, 91, 7>>, 7))]}

\* a sync required (part_000 line 96), the SD card offline, so that the write
\* stage only empties the staging buffer, and the receiver holding two frames
\* when the first storeData runs
InitSync ==
  /\ dim = ScaledDim
  /\ flags = [logData |-> TRUE, microSd |-> FALSE, dataLogging |-> TRUE,
              uBloxOnline |-> TRUE, uBloxAvailable |-> TRUE]
  /\ \E u1 \in TimeUnits, u2 \in TimeUnits :
       /\ sent = <<u1, u2>>
       /\ rx = u1.bytes \o u2.bytes
  /\ InitCommon
  /\ InitControl

NextSync == storeData \/ Tick \/ ola_loopSleep

SpecSync == InitSync /\ [][NextSync]_vars

\* the fields of a frame as the receiver sent it
FrameChecksumOk(f) ==
  /\ Len(f) >= 8
  /\ f = UbxFrame(f[3], f[4], SubSeq(f, 7, Len(f) - 2))

SignedNanos(f) ==
  LET low == f[15] + 256 * f[16] + 65536 * f[17] + 16777216 * (f[18] % 128)
  IN IF f[18] >= 128 THEN (low - 2147483647) - 1 ELSE low

\* a checksum-valid UBX-NAV-TIMEUTC frame whose validUTC bit is set
QualifyingFrame(f) ==
  /\ FrameChecksumOk(f)
  /\ f[3] = 1
  /\ f[4] = 33
  /\ Len(f) = 28
  /\ (f[26] \div 4) % 2 = 1

\* the end of frame i in the byte stream
FrameEnd(i) == Len(BytesOf(SubSeq(sent, 1, i)))

\* the qualifying frames whose last byte is read in this step
QualifyingRead ==
  {i \in 1..Len(sent) :
     /\ QualifyingFrame(sent[i].bytes)
     /\ Consumed < FrameEnd(i)
     /\ FrameEnd(i) <= Consumed'}

-----------------------------------------------------------------------------
(* C18: when the RTC is set from the byte stream *)

\* C18: an invocation of storeData sets the RTC exactly when the sync-required
\* flag is set and it reads the end of a checksum-valid UBX-NAV-TIMEUTC frame
\* whose validUTC bit is set; in every other invocation (flag clear, bit
\* clear, wrong checksum, another message) no RTC set is issued and the
\* sync-required flag is left as it was.
C18_SetOnlyWhenQualified ==
  [][storeData =>
       IF rtcSyncRequiredFlag /\ QualifyingRead # {}
       THEN rtcSets' # rtcSets
       ELSE rtcSets' = rtcSets /\ rtcSyncRequiredFlag' = rtcSyncRequiredFlag]_vars

\* a frame with the validUTC bit clear has been read with the sync pending
\* and left it pending, and the qualifying frame after it has set the RTC
C18_Witness ==
  /\ sent[1].kind = "timeinv"
  /\ sent[2].kind = "time"
  /\ rx = <<>>
  /\ Len(rtcSets) = 1
  /\ ~rtcSyncRequiredFlag

-----------------------------------------------------------------------------
(* C19: one RTC set per sync request *)

\* C19: reading a qualifying frame while the sync-required flag is set issues
\* exactly one RTC set and clears the flag; an RTC set is issued only from a
\* state in which the flag is set and always leaves it clear, and the loop,
\* which sets the flag, issues none. So between two consecutive settings of
\* the flag at most one RTC set is issued, however many qualifying frames
\* are read.
C19_OneSetPerRequest ==
  [][/\ Len(rtcSets') <= Len(rtcSets) + 1
     /\ rtcSets' # rtcSets =>
          /\ rtcSyncRequiredFlag /\ ~rtcSyncRequiredFlag'
          /\ rtcSets' = Append(rtcSets, rtcSets'[Len(rtcSets')])
     /\ storeData /\ rtcSyncRequiredFlag /\ QualifyingRead # {} =>
          Len(rtcSets') = Len(rtcSets) + 1 /\ ~rtcSyncRequiredFlag'
     /\ ~rtcSyncRequiredFlag /\ rtcSyncRequiredFlag' => rtcSets' = rtcSets]_vars

\* two qualifying frames have been read and the RTC has been set once
C19_Witness ==
  /\ QualifyingFrame(sent[1].bytes)
  /\ QualifyingFrame(sent[2].bytes)
  /\ rx = <<>>
  /\ Len(rtcSets) = 1
  /\ ~rtcSyncRequiredFlag

-----------------------------------------------------------------------------
(* C20: the sub-second value passed to the RTC *)

\* C20: whenever storeData sets the RTC, the hundredths passed to rtc.setTime
\* are 0 if the signed 32-bit nano field of the frame used is negative, and
\* the field divided by 10,000,000, rounded toward zero, otherwise; the other
\* arguments are the frame's time and date fields.
C20_Hundredths ==
  [][storeData /\ rtcSets' # rtcSets =>
       \E i \in QualifyingRead :
         LET f == sent[i].bytes
             set == rtcSets'[Len(rtcSets')]
         IN /\ \A j \in QualifyingRead : i <= j
            /\ set.hundredths = IF SignedNanos(f) < 0 THEN 0
                                ELSE SignedNanos(f) \div 10000000
            /\ set.hour = f[23] /\ set.minute = f[24] /\ set.seconds = f[25]
            /\ set.day = f[22] /\ set.month = f[21]]_vars

\* the RTC has been set from a frame with nano = -2 and from a frame with
\* nano = 994999999
C20_Witness ==
  /\ Len(rtcSets) = 2
  /\ SignedNanos(sent[1].bytes) = -2
  /\ sent[1].kind = "time"
  /\ rtcSets[1].hundredths = 0
  /\ SignedNanos(sent[2].bytes) = 994999999
  /\ sent[2].kind = "time"
  /\ rtcSets[2].hundredths = 99


-----------------------------------------------------------------------------
(* C21: the life of the sync-required flag *)

\* C21: rtcSyncRequiredFlag is set when the program starts, it is set by every
\* pass of the loop that handles an RTC alarm and by every return from sleep,
\* and it goes from set to clear only in a storeData that sets the RTC from a
\* time frame.
C21_SyncRequiredFlag ==
  /\ rtcSyncRequiredFlag = TRUE
  /\ [][/\ ola_loopAlarm => rtcSyncRequiredFlag'
        /\ ola_loopSleep => rtcSyncRequiredFlag'
        /\ (rtcSyncRequiredFlag /\ ~rtcSyncRequiredFlag')
             => /\ storeData
                /\ Len(rtcSets') = Len(rtcSets) + 1
                /\ QualifyingRead # {}]_vars

\* the RTC was set from a time frame, and the alarm handled afterwards asks
\* for the next synchronisation
C21_Witness ==
  /\ rtcSets # <<>>
  /\ calls = <<"alarm">> \o ola_AlarmSteps
  /\ rtcSyncRequiredFlag


-----------------------------------------------------------------------------
(* C22: the stop button *)

\* the write calls storeData issued in its latest invocation
WriteOps == SelectSeq(ops, LAMBDA o : o.op = "write")

\* every one of them has put its block at the end of the log file
IssuedComplete ==
  /\ Len(WriteOps) <= Len(file)
  /\ \A i \in 1..Len(WriteOps) :
       Len(file[Len(file) - Len(WriteOps) + i]) = WriteOps[i].n

\* C22: a stop signal, whether it arrives between two statements of the loop
\* or while storeData is writing or syncing, only sets stopLoggingFlag: the
\* loop stays where it is and the writes storeData issued are in the file.
\* The stop is processed only by the loop, with the flag set, outside
\* storeData, touching nothing of the pipeline, with every issued write done.
C22_StopHonoredByLoop ==
  [][/\ (~stopLoggingFlag /\ stopLoggingFlag')
          => /\ pc' = pc
             /\ calls' = calls
             /\ IssuedComplete'
             /\ (storeData \/ UNCHANGED Pipeline)
     /\ (pc # "stopped" /\ pc' = "stopped")
          => /\ stopLoggingFlag
             /\ calls' = <<"stopLogging">>
             /\ UNCHANGED Pipeline
             /\ IssuedComplete]_vars

\* the stop has been processed after a storeData that wrote and synced
C22_Witness ==
  /\ pc = "stopped"
  /\ stopLoggingFlag
  /\ WriteOps # <<>>
  /\ \E i \in 1..Len(ops) : ops[i].op = "sync"
  /\ synced = Len(file)


-----------------------------------------------------------------------------
(* C23: what the interrupt handlers do *)

\* the steps that are interrupt handlers
HandlerStep ==
  \/ micromod_am_rtc_isr
  \/ micromod_am_watchdog_isr
  \/ ola_am_rtc_isr
  \/ ola_am_watchdog_isr
  \/ stopLoggingIsr

\* C23 as stated: every interrupt handler records its event and returns; it
\* does not block, and it leaves the frame buffer, the staging buffer, the
\* assembly buffer and the log file alone.
C23_AsStated ==
  [][HandlerStep => /\ pc' # "halt"
                    /\ UNCHANGED <<UBXbuffer, UBXpointer, GNSSbuffer, SDbuffer,
                                   SDpointer, file, synced>>]_vars

\* the part of C23 that holds of every handler: no buffer and no file access
C23_NoBufferAccess ==
  [][HandlerStep => UNCHANGED <<UBXbuffer, UBXpointer, GNSSbuffer, SDbuffer,
                                SDpointer, file, synced>>]_vars


-----------------------------------------------------------------------------
(* C24: no storage traffic while logging is offline *)

\* logging disabled, storage not ready, or data logging offline
LoggingOffline == ~flags.logData \/ ~flags.microSd \/ ~flags.dataLogging

\* C24: an invocation of storeData made while logging is offline issues no
\* write and no sync: the file, the synced length and the time of the last
\* sync stay as they were.
C24_NoStorageTraffic ==
  [][(storeData /\ LoggingOffline)
       => /\ ops' = <<>>
          /\ UNCHANGED <<file, synced, lastDataLogSyncTime, SDbuffer, SDpointer>>]_vars

\* with the storage offline, frames have been read and staged, the sync
\* interval has passed, and nothing has reached the file
C24_Witness ==
  /\ LoggingOffline
  /\ staged # <<>>
  /\ Consumed = Len(BytesOf(sent))
  /\ millis - lastDataLogSyncTime > SyncInterval
  /\ ops = <<>>
  /\ file = <<>>
  /\ synced = 0


-----------------------------------------------------------------------------
(* C25: the read stage after a storage fault *)

\* the loop is running after a setup in which the storage failed
StorageFaulted == pc = "loop" /\ ~flags.microSd

\* C25 as stated: once a storage fault has marked logging offline, the loop
\* still calls storeData on every pass (the test of line 213 succeeds), so the
\* receiver is polled and its bytes reach the parser.
C25_AsStated == (StorageFaulted /\ ~frozen) => flags.dataLogging

\* what the loop does instead: after a storage fault no byte of the receiver
\* is ever taken
C25_NothingRead == StorageFaulted => Consumed = 0 /\ staged = <<>>

\* bytes wait in the receiver and the loop, running, does not fetch them
C25_Starved == StorageFaulted /\ rx # <<>> /\ millis > 0 /\ calls = <<"goToSleep">>


-----------------------------------------------------------------------------
(* C26: transport faults *)

\* the three faults: the receiver does not acknowledge its address, the low
\* byte of the length is 0xFF, a data request returns nothing
AddressNack(a) == a.kind = "nack"
LengthFF(a) == a.kind = "count" /\ BytesAvailable(a).lsb = 255
ReadFails(a, good) ==
  /\ a.kind = "count"
  /\ BytesAvailable(a).lsb # 255
  /\ BytesAvailable(a).reported # 0
  /\ good < NumChunks(BytesAvailable(a).masked)
TransportFault(a, good) == AddressNack(a) \/ LengthFF(a) \/ ReadFails(a, good)

\* the read stage at the moment of the fault: the requests served before it
\* have been processed
BeforeFault(good) ==
  ProcessBytes(ReadState, rx, 1, Min(good * dim.I2C, Len(rx)), dim)

\* this step is an invocation of storeData in which fault (a, good) occurs
\* and which reaches the write stage
FaultStep(a, good) ==
  /\ TransportFault(a, good)
  /\ Polls
  /\ storeData
  /\ PollAndRead(a, good)
  /\ ~frozen'

\* what the fault leaves: the in-progress frame and the bytes staged so far
\* as they were, the result false, and the write stage run on the staging
\* buffer
FaultAbsorbed(good) ==
  LET s == BeforeFault(good)
  IN /\ ret_val' = FALSE
     /\ parseUbxState' = s.parseUbxState
     /\ ubx' = s.ubx
     /\ UBXbuffer' = s.UBXbuffer
     /\ UBXpointer' = s.UBXpointer
     /\ staged' = s.staged
     /\ rx' = Drop(rx, Min(good * dim.I2C, Len(rx)))
     /\ SdWrite(s.GNSSbuffer)

\* C26 as stated: on every transport fault storeData reports failure, leaves
\* the staging buffer and the in-progress frame as they were before the
\* fault, runs the write stage, and the next invocation polls the receiver
\* again.
C26_AsStated ==
  [][\A a \in PollAnswers, good \in 0..NumChunks(Len(rx)) :
       FaultStep(a, good)
         => /\ FaultAbsorbed(good)
            /\ micros - lastReadTime' > usBetweenReadings \div 3]_vars

\* C26, amended: as above, but only after a missing acknowledge or a failed
\* data request is the poll still due in the next invocation; a length low
\* byte of 0xFF restarts the poll interval, so the receiver is polled again
\* by the first invocation made more than a third of usBetweenReadings later.
C26_FaultsAbsorbed ==
  [][\A a \in PollAnswers, good \in 0..NumChunks(Len(rx)) :
       FaultStep(a, good)
         => /\ FaultAbsorbed(good)
            /\ lastReadTime' = (IF LengthFF(a) THEN micros ELSE lastReadTime)
            /\ ~LengthFF(a) => micros - lastReadTime' > usBetweenReadings \div 3]_vars

\* a data request failed in the middle of a frame: failure is reported, the
\* frame is still in progress and the rest of it waits in the receiver
C26_Witness ==
  /\ ret_val = FALSE
  /\ ~frozen
  /\ parseUbxState = "PARSE_UBX_PAYLOAD"
  /\ UBXpointer = dim.I2C
  /\ rx # <<>>
  /\ Logging
  /\ file # <<>>


-----------------------------------------------------------------------------
(* C27: a byte count with bit 15 set *)

\* the receiver reports a count of 2^15 or more
HighBit(a) == a.kind = "count" /\ a.count >= 32768

\* this step is an invocation of storeData in which the receiver reports a
\* and serves `good` data requests, and which does not halt on an overflow
ReadStep(a, good) ==
  /\ Polls
  /\ storeData
  /\ PollAndRead(a, good)
  /\ ~frozen'

\* C27: when the count the receiver reports has bit 15 set, the invocation
\* reads count mod 2^15 bytes, in requests of at most I2C_BUFFER_LENGTH
\* bytes, and never sets out to read the literal count: with every request
\* served it takes exactly count mod 2^15 bytes and reports success, and a
\* failed request only makes it stop earlier.
C27_MaskedCount ==
  [][\A a \in PollAnswers, good \in 0..NumChunks(Len(rx)) :
       (HighBit(a) /\ ~LengthFF(a) /\ ReadStep(a, good))
         => /\ Len(rx) - Len(rx') = Min(good * dim.I2C, a.count % 32768)
            /\ Len(rx) - Len(rx') <= a.count % 32768
            /\ good = NumChunks(a.count % 32768)
                 => Len(rx) - Len(rx') = a.count % 32768 /\ ret_val' = TRUE]_vars

\* a count with bit 15 set has been answered by reading a whole frame, which
\* took more than one request, and nothing more
C27_Witness ==
  /\ Len(sent) = 1
  /\ sent[1].kind = "time"
  /\ rx = <<>>
  /\ staged = sent[1].bytes
  /\ ret_val = TRUE
  /\ lastReadTime = 0


-----------------------------------------------------------------------------
(* The parser fed one byte at a time: the body of the for loop of storeData
   (lines 158-351) applied to streams that hold a malformed stretch between
   two checksum-valid frames *)

\* one pass of the for loop: the next byte of the receiver is processed
ReadByte ==
  /\ rx # <<>>
  /\ ~frozen
  /\ LET s == ProcessByte(ReadState, Head(rx), dim)
     IN /\ parseUbxState' = s.parseUbxState
        /\ ubx' = s.ubx
        /\ UBXbuffer' = s.UBXbuffer
        /\ UBXpointer' = s.UBXpointer
        /\ GNSSbuffer' = s.GNSSbuffer
        /\ rtcSyncRequiredFlag' = s.rtcSyncRequiredFlag
        /\ rtcSyncFlag' = s.rtcSyncFlag
        /\ rtcSets' = s.rtcSets
        /\ staged' = s.staged
        /\ offered' = s.offered
        /\ frozen' = s.frozen
  /\ rx' = Tail(rx)
  /\ UNCHANGED <<dim, flags, sent, SDbuffer, SDpointer, maxGNSSbufferAvailable, millis,
                 lastReadTime, lastDataLogSyncTime, file, synced, ops, ret_val, ctl,
                 gpio32>>

\* the checksum-valid frames of Units
FeedFrames == {u \in Units : u.kind \in {"nav", "ack", "time"}}

\* the values a corrupted byte takes in place of v
CorruptValues(v) == {(v + 1) % 256, (v + 128) % 256, 0, UBX_SYNC_1, UBX_SYNC_2, 255} \ {v}

\* the frames of FeedFrames with the first or the second checksum byte corrupted
CorruptedFrames ==
  {[kind |-> "corruptA", bytes |-> [u.bytes EXCEPT ![Len(u.bytes) - 1] = c]] :
     <<u, c>> \in {<<v, d>> \in FeedFrames \X (0..255) :
                     d \in CorruptValues(v.bytes[Len(v.bytes) - 1])}}
  \cup
  {[kind |-> "corruptB", bytes |-> [u.bytes EXCEPT ![Len(u.bytes)] = c]] :
     <<u, c>> \in {<<v, d>> \in FeedFrames \X (0..255) :
                     d \in CorruptValues(v.bytes[Len(v.bytes)])}}

\* bytes that end in a sync-byte mismatch: a lone first sync byte, a first
\* sync byte with a wrong second one, a byte that is no sync byte
SyncMismatches ==
  {[kind |-> "sync1", bytes |-> <<UBX_SYNC_1>>],
   [kind |-> "sync1x", bytes |-> <<UBX_SYNC_1, 0>>],
   [kind |-> "noise", bytes |-> <<0>>]}

\* a checksum-valid frame, a malformed stretch, a checksum-valid frame
InitFeed ==
  /\ dim = ScaledDim
  /\ flags = [logData |-> TRUE, microSd |-> TRUE, dataLogging |-> TRUE,
              uBloxOnline |-> TRUE, uBloxAvailable |-> TRUE]
  /\ \E u1 \in FeedFrames, m \in CorruptedFrames \cup SyncMismatches, u2 \in FeedFrames :
       /\ Len(u1.bytes) + Len(u2.bytes) <= dim.GNSSbufferSize
       /\ sent = <<u1, m, u2>>
       /\ rx = u1.bytes \o m.bytes \o u2.bytes
  /\ InitCommon
  /\ InitControl

NextFeed == ReadByte

SpecFeed == InitFeed /\ [][NextFeed]_vars

-----------------------------------------------------------------------------
(* C28: what a mismatch costs *)

\* C28 as stated: after a sync-byte or checksum mismatch only the malformed
\* bytes are lost: what was staged before stays staged, and the
\* checksum-valid frame that follows the malformed bytes is recognized and,
\* unless it is an acknowledgment, staged.
C28_AsStated ==
  /\ Consumed >= FrameEnd(1) => IsPrefix(Concat(ReadNonAckFrames(1)), staged)
  /\ rx = <<>> => staged = Concat(NonAckFrames)

\* the part of C28 that holds: what was staged before the mismatch stays
\* staged, and nothing of the malformed bytes is staged
C28_StagedKept ==
  /\ Consumed >= FrameEnd(1) => IsPrefix(Concat(ReadNonAckFrames(1)), staged)
  /\ IsPrefix(staged, Concat(NonAckFrames))

\* the frame after the malformed bytes has been read to its end and is lost
C28_FrameLost ==
  /\ rx = <<>>
  /\ sent[3].kind = "nav"
  /\ staged = Concat(ReadNonAckFrames(1))
  /\ parseUbxState = "PARSE_UBX_SYNC_CHAR_1"



\* the part of C28 about checksum mismatches and about a wrong byte that is
\* not itself a first sync byte: the frame that follows is staged
C28_FollowerKept ==
  (sent[2].kind # "sync1" /\ rx = <<>>) => staged = Concat(NonAckFrames)


-----------------------------------------------------------------------------
(* C29: a corrupted checksum byte *)

\* the frame in the middle of the stream has a corrupted checksum byte, at
\* this position of the stream
CorruptedFrame == sent[2].kind \in {"corruptA", "corruptB"}
CorruptAt == IF sent[2].kind = "corruptA" THEN FrameEnd(2) - 1 ELSE FrameEnd(2)

\* C29: for every valid frame with one corrupted checksum byte, the parser
\* answers the corrupted byte with Invalid (SYNC_LOST), the frame is never
\* reported as valid and nothing of it is staged, and after the corrupted
\* byte the cursor is at the first-sync-byte stage with the frame buffer
\* pointer at 0, as after a reset.
C29_CorruptedChecksum ==
  /\ [](CorruptedFrame /\ FrameEnd(1) <= Consumed /\ Consumed <= FrameEnd(2)
          => /\ parseUbxState # "FRAME_VALID"
             /\ offered = Concat(ReadNonAckFrames(1))
             /\ staged = offered)
  /\ [][(CorruptedFrame /\ ReadByte /\ Consumed + 1 = CorruptAt)
          => /\ processUbx(parseUbxState, ubx, Head(rx)).state = "SYNC_LOST"
             /\ parseUbxState' = "PARSE_UBX_SYNC_CHAR_1"
             /\ UBXpointer' = 0
             /\ UNCHANGED <<staged, offered, GNSSbuffer>>]_vars

\* the corrupted first checksum byte of a time frame has just been read: 26
\* bytes of the frame were in the frame buffer and the parser is as after a
\* reset, with only the frame before it staged
C29_Witness ==
  /\ sent[1].kind = "nav"
  /\ sent[2].kind = "corruptA"
  /\ Len(sent[2].bytes) = 28
  /\ Consumed = CorruptAt
  /\ parseUbxState = "PARSE_UBX_SYNC_CHAR_1"
  /\ UBXpointer = 0
  /\ Len(UBXbuffer) >= 27
  /\ staged = sent[1].bytes


-----------------------------------------------------------------------------
(* C30: the split of the stream into reads and invocations *)

\* the read stage before the first byte
FreshState ==
  [parseUbxState |-> "PARSE_UBX_SYNC_CHAR_1", ubx |-> ParserReset, UBXbuffer |-> <<>>,
   UBXpointer |-> 0, GNSSbuffer |-> <<>>, rtcSyncRequiredFlag |-> TRUE,
   rtcSyncFlag |-> TRUE, rtcSets |-> <<>>, frozen |-> FALSE, staged |-> <<>>,
   offered |-> <<>>]

\* the bytes read so far, processed in one piece by a single invocation with
\* the sizes d
OneRead(d) == ProcessBytes(FreshState, BytesOf(sent), 1, Consumed, d)

\* the sizes of the program with a staging buffer that never fills
NeverFull == [dim EXCEPT !.GNSSbufferSize = Len(BytesOf(sent)) + 1]

\* the frames emitted and the in-progress frame are those of r
SameFrames(r) ==
  /\ offered = r.offered
  /\ rtcSets = r.rtcSets
  /\ parseUbxState = r.parseUbxState
  /\ ubx = r.ubx
  /\ UBXpointer = r.UBXpointer
  /\ Take(UBXbuffer, UBXpointer) = Take(r.UBXbuffer, r.UBXpointer)

\* C30 as stated: however the bytes read so far were split into reads and
\* invocations, the frames emitted, the in-progress frame and the bytes
\* staged are those of reading them in one piece.
C30_AsStated ==
  ~frozen => SameFrames(OneRead(dim)) /\ staged = OneRead(dim).staged

\* C30, amended: the frames emitted, the bytes offered to the staging buffer
\* and the in-progress frame do not depend on the split; the bytes staged are
\* the bytes offered unless the staging buffer was full, and how full it is
\* depends on the write stages that ran between the reads.
C30_SplitInvariant ==
  ~frozen => /\ SameFrames(OneRead(NeverFull))
             /\ IsSubseq(staged, offered)
             /\ Dropped = 0 => staged = OneRead(NeverFull).staged

\* a time frame that took three requests, the last of them in a later
\* invocation after a failed request, has been emitted whole after another
\* frame
C30_Witness ==
  /\ Len(sent) = 2
  /\ sent[2].kind = "time"
  /\ sent[1].kind = "nav"
  /\ rx = <<>>
  /\ rtcSets # <<>>
  /\ staged = sent[1].bytes \o sent[2].bytes
  /\ ret_val = FALSE


-----------------------------------------------------------------------------
(* C31: the high-water mark of the staging buffer *)

\* the bytes in GNSSbuffer when the write stage of the invocation begins:
\* those it held on entry and those the read stage has put into it
WriteStageBytes == Len(GNSSbuffer) + Len(staged') - Len(staged)

\* an invocation of storeData that returns
Returns == storeData /\ ~frozen'

-----------------------------------------------------------------------------
(* The rolling alarm of the MicroMod build with the RTC's clock (01_rtc.ino). *)
(* Here the rtc record also holds the RTC's counter, rtc.counter, and the     *)
(* fields rtc.hour and rtc.minute of the APM3_RTC object, which hold the time *)
(* read by the latest rtc.getTime(); rtc.alarm holds the alarm registers.     *)
(* dim also holds the configured intervals.  The clock is followed by the     *)
(* minute: the seconds and hundredths of every alarm the program sets are 0,  *)
(* so an alarm matches at the start of a minute.                              *)

MinutesPerHour == 60
HoursPerDay == 24
MaxArms == 2             \* alarms set in one behaviour
MaxMinutes == 70         \* minutes the clock is followed for after an alarm is set

\* minutes since the start of day 0
Abs(t) == (t.day * HoursPerDay + t.hour) * MinutesPerHour + t.minute

\* the counter one minute later
NextMinute(t) ==
  IF t.minute + 1 < MinutesPerHour THEN [t EXCEPT !.minute = @ + 1]
  ELSE IF t.hour + 1 < HoursPerDay THEN [t EXCEPT !.minute = 0, !.hour = @ + 1]
  ELSE [day |-> t.day + 1, hour |-> 0, minute |-> 0]

\* rtc.getTime() (called by printDateTime, 01_rtc.ino line 95, and by
\* readRtc, line 47): the fields of the object are read from the counter
getTime(r) == [r EXCEPT !.hour = r.counter.hour, !.minute = r.counter.minute]

\* the arguments of rtc.setAlarm in lines 66 and 82, for an interval of
\* `hours` and `minutes`; day and month play no part in the match of mode 5
AlarmArgs(r, hours, minutes) ==
  [hour |-> (r.hour + hours) % HoursPerDay,
   minute |-> (r.minute + minutes) % MinutesPerHour,
   seconds |-> 0, hundredths |-> 0]

\* the alarm modes that match within a day (01_rtc.ino lines 4-12), at the
\* start of minute t: 4 matches hundredths, seconds, minutes and hours, 5
\* matches hundredths, seconds and minutes, 6 hundredths and seconds
Matches(r, t) ==
  /\ r.alarm.seconds = 0
  /\ r.alarm.hundredths = 0
  /\ CASE r.mode = 4 -> r.alarm.minute = t.minute /\ r.alarm.hour = t.hour
       [] r.mode = 5 -> r.alarm.minute = t.minute
       [] r.mode = 6 -> TRUE
       [] OTHER -> FALSE

\* the latest alarm set, and the one before it
LastArm == calls[Len(calls)]
FirstOfTwo == calls[Len(calls) - 1]

\* the times of day at which the clock is picked up
StartTimes ==
  {[day |-> 0, hour |-> 10, minute |-> m] : m \in {0, 20, 45}}
  \cup {[day |-> 0, hour |-> 23, minute |-> 30]}

\* the alarm has fired in the current minute
JustFired == alarmFlag /\ rtc.int = "none" /\ Matches(rtc, rtc.counter)

\* an alarm is set at the time the clock is picked up, right after another
\* alarm was set, or in the minute in which the alarm has fired
CanArm ==
  /\ pc = "loop"
  /\ Len(calls) < MaxArms
  /\ IF calls = <<>> THEN rtc.counter \in StartTimes \/ JustFired
     ELSE LastArm.at = rtc.counter \/ JustFired

\* a call of setSleepAlarm or setLoggingAlarm with the configured interval:
\* the alarm is set from rtc.hour and rtc.minute as they are, and the
\* printDateTime of lines 72 and 88 then reads the time
Arm(fn, hours, minutes) ==
  /\ CanArm
  /\ rtc' = getTime(rollingAlarm(rtc, AlarmArgs(rtc, hours, minutes)))
  /\ calls' = Append(calls, [fn |-> fn, at |-> rtc.counter,
                             fresh |-> rtc.hour = rtc.counter.hour
                                       /\ rtc.minute = rtc.counter.minute,
                             hours |-> hours, minutes |-> minutes,
                             target |-> AlarmArgs(rtc, hours, minutes)])
  /\ UNCHANGED <<pc, alarmFlag, loggingFlag, watchdogFlag, watchdogCounter, wdt,
                 restarts, Pipeline, gpio32>>

alarm_setSleepAlarm == Arm("setSleepAlarm", dim.sleepAlarmHours, dim.sleepAlarmMinutes)

alarm_setLoggingAlarm ==
  Arm("setLoggingAlarm", dim.loggingAlarmHours, dim.loggingAlarmMinutes)

\* the printDateTime() of loop() line 188, called once the loop has found
\* the alarm flag set
alarm_getTime ==
  /\ pc = "loop"
  /\ JustFired
  /\ rtc # getTime(rtc)
  /\ rtc' = getTime(rtc)
  /\ UNCHANGED <<pc, alarmFlag, loggingFlag, watchdogFlag, watchdogCounter, wdt,
                 restarts, calls, Pipeline, gpio32>>

\* the RTC's counter reaches the next minute; the alarm interrupt status is
\* set when the alarm matches
RtcMinute ==
  /\ IF calls = <<>> THEN ~alarmFlag
     ELSE Abs(rtc.counter) - Abs(LastArm.at) < MaxMinutes
  /\ rtc.int = "none"
  /\ LET t == NextMinute(rtc.counter)
     IN rtc' = [rtc EXCEPT !.counter = t,
                           !.int = IF Matches(rtc, t) THEN "latched" ELSE @]
  /\ UNCHANGED <<pc, alarmFlag, loggingFlag, watchdogFlag, watchdogCounter, wdt,
                 restarts, calls, Pipeline, gpio32>>

\* the intervals: the defaults of cryologger_gvms_micromod.ino lines 72-75
\* and others below and above an hour
AlarmConfigs ==
  {[sleepAlarmHours |-> 0, sleepAlarmMinutes |-> 60,
    loggingAlarmHours |-> 0, loggingAlarmMinutes |-> 60],
   [sleepAlarmHours |-> 0, sleepAlarmMinutes |-> 45,
    loggingAlarmHours |-> 0, loggingAlarmMinutes |-> 15],
   [sleepAlarmHours |-> 1, sleepAlarmMinutes |-> 30,
    loggingAlarmHours |-> 2, loggingAlarmMinutes |-> 0]}

AlarmDims ==
  {[SDpacket |-> ScaledSDpacket, UBXbufferSize |-> ScaledUBXbufferSize,
    GNSSbufferSize |-> ScaledGNSSbufferSize, I2C |-> ScaledI2C, units |-> MaxUnits,
    sleepAlarmHours |-> c.sleepAlarmHours, sleepAlarmMinutes |-> c.sleepAlarmMinutes,
    loggingAlarmHours |-> c.loggingAlarmHours,
    loggingAlarmMinutes |-> c.loggingAlarmMinutes] : c \in AlarmConfigs}

\* setup() has run: configureRtc (01_rtc.ino lines 2-38) has set the alarm to
\* the hour rollover with mode 5 and attached the interrupt, and the
\* printDateTime of setup() line 170 has read the time
InitAlarm ==
  /\ dim \in AlarmDims
  /\ flags = [logData |-> TRUE, microSd |-> TRUE, dataLogging |-> TRUE,
              uBloxOnline |-> TRUE, uBloxAvailable |-> TRUE]
  /\ sent = <<>>
  /\ rx = <<>>
  /\ InitCommon
  /\ pc = "loop"
  /\ alarmFlag = FALSE
  /\ loggingFlag = FALSE
  /\ watchdogFlag = FALSE
  /\ watchdogCounter = 0
  /\ wdt = WdtStarted
  /\ \E t \in StartTimes :
       rtc = [alarm |-> [hour |-> 0, minute |-> 0, seconds |-> 0, hundredths |-> 0],
              mode |-> 5, int |-> "none", attached |-> TRUE,
              counter |-> t, hour |-> t.hour, minute |-> t.minute]
  /\ restarts = 0
  /\ calls = <<>>
  /\ useGPIO32ForStopLogging = FALSE
  /\ stopLoggingFlag = FALSE

NextAlarm ==
  \/ alarm_setSleepAlarm
  \/ alarm_setLoggingAlarm
  \/ alarm_getTime
  \/ RtcMinute
  \/ micromod_am_rtc_isr

SpecAlarm == InitAlarm /\ [][NextAlarm]_vars


-----------------------------------------------------------------------------
(* C32: setting the alarm twice in succession *)

\* the latest two alarms were set in succession, with no minute between
\* them, and with the same target
TwiceArmed ==
  /\ Len(calls) >= 2
  /\ FirstOfTwo.at = LastArm.at
  /\ FirstOfTwo.target = LastArm.target

\* the step that sets the second of the two alarms
SecondArm == calls' # calls /\ TwiceArmed'

\* C32: re-arming the alarm twice in succession with the same target leaves
\* exactly one alarm armed and produces exactly one alarm interrupt when the
\* target time is reached: the state after the second re-arm equals the state
\* after the first. The second call leaves the RTC, the alarm flag and the
\* loop as the first call left them; from then on the alarm registers hold
\* the one target, the interrupt is raised when the clock reaches its minute,
\* and the handler that serves it runs in a minute that matches the target
\* and leaves no interrupt behind.
C32_RearmIdempotent ==
  [][/\ SecondArm => rtc' = rtc /\ alarmFlag' = alarmFlag /\ pc' = pc
     /\ TwiceArmed =>
          /\ rtc.alarm = LastArm.target /\ rtc.mode = 5
          /\ RtcMinute /\ rtc'.counter.minute = LastArm.target.minute
               => rtc'.int = "latched"
          /\ RtcMinute /\ rtc'.counter.minute # LastArm.target.minute
               => rtc'.int = "none"
          /\ micromod_am_rtc_isr
               => /\ rtc.counter.minute = LastArm.target.minute
                  /\ Abs(rtc.counter) > Abs(LastArm.at)
                  /\ rtc'.int = "none"
                  /\ alarmFlag']_vars

\* two alarms were set in succession with one target at the time the clock
\* was picked up; the clock has reached the target, and the one interrupt has
\* been served
C32_Witness ==
  /\ TwiceArmed
  /\ LastArm.at \in StartTimes
  /\ Abs(rtc.counter) > Abs(LastArm.at)
  /\ rtc.counter.minute = LastArm.target.minute
  /\ alarmFlag
  /\ rtc.int = "none"


-----------------------------------------------------------------------------
(* C33: the time at which the rolling alarm fires *)

\* minutes from the latest call that set the alarm to the counter's value
SinceArmed(t) == Abs(t) - Abs(LastArm.at)

\* the clock reaches a minute in which the alarm set by the latest call
\* fires for the first time; the call had the current time in rtc.hour and
\* rtc.minute
FirstFire ==
  /\ RtcMinute
  /\ calls # <<>>
  /\ LastArm.fresh
  /\ rtc'.int = "latched"
  /\ SinceArmed(rtc'.counter) <= MinutesPerHour

\* C33 as stated: for every current RTC time and every configured interval
\* (hours, minutes), the alarm armed by setSleepAlarm and setLoggingAlarm
\* fires exactly the configured interval after the current RTC time,
\* including when the minute sum reaches 60 or more and when the hour sum
\* reaches 24 or more.
C33_AsStated ==
  [][FirstFire =>
       SinceArmed(rtc'.counter) = LastArm.hours * MinutesPerHour + LastArm.minutes]_vars

\* what the code does: the alarm fires at the next minute that equals the
\* target's minute, whatever the configured hours; that is the configured
\* minutes later, taken modulo 60, and a full hour later when that is 0
C33_MinutesOnly ==
  [][FirstFire =>
       SinceArmed(rtc'.counter) =
         (IF LastArm.minutes % MinutesPerHour = 0 THEN MinutesPerHour
          ELSE LastArm.minutes % MinutesPerHour)]_vars

\* an alarm set for an hour or more has fired within the hour
C33_FiredEarly ==
  /\ calls # <<>>
  /\ LastArm.fresh
  /\ LastArm.hours > 0
  /\ alarmFlag
  /\ SinceArmed(rtc.counter) > 0
  /\ SinceArmed(rtc.counter) < LastArm.hours * MinutesPerHour + LastArm.minutes


-----------------------------------------------------------------------------
(* C34: the indices of UBXbuffer and SDbuffer *)

\* UBXbuffer and SDbuffer are kept up to the highest index written, so their
\* lengths bound every index that was ever written
HighestWritten(buf) == Len(buf) - 1

\* the bytes the write stage of the invocation takes out of GNSSbuffer: they
\* go to the file or stay in SDbuffer
DrainReads == (Len(FileBytes') + SDpointer') - (Len(FileBytes) + SDpointer)

\* C34: buffer indices never leave their buffers: at every point where the
\* frame buffer is written its pointer is below the frame-buffer size (4096),
\* at every point where the assembly buffer is written its pointer is below
\* the block size (512), and on every return from storeData the assembly
\* pointer is in 0..511; the drain loop never reads more bytes from the
\* staging buffer than were available when it started.
C34_IndicesInBounds ==
  /\ [](/\ HighestWritten(UBXbuffer) < dim.UBXbufferSize
        /\ UBXpointer <= dim.UBXbufferSize
        /\ UBXpointer = dim.UBXbufferSize => frozen
        /\ HighestWritten(SDbuffer) < dim.SDpacket
        /\ SDpointer \in 0..(dim.SDpacket - 1))
  /\ [][Returns /\ Logging =>
          /\ DrainReads \in 0..WriteStageBytes
          /\ Len(GNSSbuffer') = WriteStageBytes - DrainReads]_vars

\* the last element of UBXbuffer has been written, which ends in the
\* overflow freeze, after a full packet had gone from SDbuffer to the file
C34_Witness ==
  /\ HighestWritten(UBXbuffer) = dim.UBXbufferSize - 1
  /\ frozen
  /\ HighestWritten(SDbuffer) = dim.SDpacket - 1
  /\ file # <<>>


-----------------------------------------------------------------------------
(* C35: alarm events and the alarm flag *)

\* the loop clears the flag that am_rtc_isr has set; a hard restart, which
\* resets every global, is not counted
FlagCleared == alarmFlag /\ ~alarmFlag' /\ restarts' = restarts

\* C35 as stated: no RTC alarm event is lost under any interleaving of the
\* alarm interrupt with the main loop: every time the alarm interrupt handler
\* sets the alarm flag, the main loop later executes its alarm-handling
\* branch for that event, and the flag is never cleared without that handling
\* having run. The claim implies that every step that clears the flag is one
\* in which loop() has found the flag set at line 183 and entered the branch.
C35_AsStated == [][FlagCleared => micromod_loopAlarm]_vars

\* what the code does: the flag is cleared where the branch is entered (line
\* 186) and once more at line 214, after logGnss has returned
C35_ClearedTwice ==
  [][FlagCleared => micromod_loopAlarm \/ micromod_logGnssReturn]_vars

\* the alarm that fired during logGnss has been cleared at line 214 and the
\* loop sleeps: no pass of the branch has begun for it and loggingFlag has
\* not been toggled
C35_EventConsumed ==
  /\ pc = "sleep"
  /\ ~alarmFlag
  /\ loggingFlag
  /\ \E i \in 1..Len(calls) : calls[i] = "logGnss"

====
